---- MODULE Spec2Model ----
(***************************************************************************)
(* Angular Runtime X-Ray: the call-stack builder of the VS Code extension  *)
(* (src/visualization/callStackBuilder.ts, kept as src/unnamed/part_004),  *)
(* the flame graph and comparison views that feed the native module, and   *)
(* the snapshot storage (src/unnamed/part_002).  The native module itself  *)
(* (flame graph projection, snapshot comparison, gzip) is Rust code that   *)
(* is not part of the sources; its operators follow its specification.     *)
(*                                                                         *)
(* The live event store is a JavaScript Map keyed by callId.  A Map keeps  *)
(* its entries in first-insertion order, and set() on a key that is        *)
(* already present replaces the value in place: the store is modelled as   *)
(* the sequence of its values in iteration order.                          *)
(*                                                                         *)
(* A node object is a record.  The fields className, methodName and        *)
(* filePath are copied verbatim by addCall and by the clone and are read   *)
(* by nothing in the builder; they are left out.  Field obj is not a field *)
(* of the program: it tells whether the record stands for the object that  *)
(* addCall created ("stored") or for a copy made by buildCallTree          *)
(* ("clone"), so that writes through a shared reference can be modelled.   *)
(* children holds references to nodes of the same build, written as their  *)
(* callIds (the keys of nodeMap).                                          *)
(***************************************************************************)
EXTENDS Integers, Sequences, FiniteSets, TLC

VARIABLES
    calls,        \* this.calls: the stored nodes, in Map iteration order
    pc,           \* position of the reader inside buildCallTree
    nodeMap,      \* buildCallTree's nodeMap, in Map iteration order
    roots,        \* buildCallTree's roots (callIds of nodeMap entries)
    idx,          \* index of the running for-of loop
    stack,        \* activation records of calculateSelfTimes
    steps,        \* history: loop iterations the running build has executed
    seen,         \* history: the store contents that existed during the build
    overwritten,  \* history: stored callIds whose node comes from a duplicate insert
    lastCall,     \* history: the last message handed to the store, and the store before it
    baseline,     \* methods of the snapshot loaded as baseline
    current,      \* methods of the snapshot loaded as current
    comparison,   \* how the last compareSnapshots call that ended did end, and
                  \* what it posted to the comparison view
    view,         \* whether the comparison view is resolved (this._view is set)
    flame,        \* the flame graph posted to the view for the forest of the build
    files,        \* the snapshot files of the storage directory
    clock,        \* Date.now() of the snapshot storage, in days
    loaded,       \* what the last loadSnapshot gave its caller
    lastOp,       \* history: the last operation on the snapshot storage
    storageLog,   \* history, when on: what the last storage operation met and gave
    tasks,        \* the asynchronous calls that are pending, in the order they were made
    performanceStore, \* performanceStore: the aggregate object of each method key
    located,      \* the keys whose aggregate has a filePath and a line
    isCapturing,  \* captureManager.isCapturing
    captureStartTime, \* captureManager.captureStartTime
    capturedData, \* captureManager.capturedData: the keys it maps to their aggregate object
    capturedCallStacks, \* captureManager.capturedCallStacks
    returned,     \* the snapshot object the last stopCapture returned
    sessionLog,   \* history: the durations handled, and those of the session
    stopLog,      \* history: the sessions started and the stopCapture calls made
    ws,           \* probe client: readyState of the socket this.ws refers to, or "null"
    detached,     \* probe client: a socket closed by disconnect() whose close event is due
    reconnectTimer, \* probe client: time left on the reconnect timer, or NoTimer
    messageQueue, \* probe client: this.messageQueue
    batchTimer,   \* probe client: time left on the batch timer, or NoTimer
    disconnected, \* history: disconnect() has returned
    probeLog,     \* history: the last batch sent, the time since the last close
                  \* while no connection has opened (NoTimer: no close yet)
    sendLog,      \* history, when on: the messages passed to send(), those transmitted
    callStack,    \* probe: callStackManager.callStack
    callIdCounter, \* probe: callStackManager.callIdCounter
    running,      \* probe: the tracked invocations on the JavaScript stack, innermost last
    awaiting,     \* probe: the tracked invocations whose promise is pending
    trackLog      \* history: the message of the last completed invocation

compareVars == <<baseline, current, comparison, view>>
storageVars == <<files, clock, loaded, lastOp, storageLog, tasks>>

\* the variables of the other components (none of them is read by the builder)
sessionVars == <<performanceStore, located, isCapturing, captureStartTime,
                 capturedData, capturedCallStacks, returned, sessionLog,
                 stopLog>>
probeVars == <<ws, detached, reconnectTimer, messageQueue, batchTimer,
               disconnected, probeLog, sendLog>>
trackVars == <<callStack, callIdCounter, running, awaiting, trackLog>>
restVars == <<compareVars, storageVars, sessionVars, probeVars, trackVars>>

vars == <<calls, pc, nodeMap, roots, idx, stack, steps, seen, overwritten,
          lastCall, flame, restVars>>

-----------------------------------------------------------------------------
(* Bounds of the model and scaled program constants *)

Ids == {"a", "b", "c"}
Undefined == "undefined"

MaxDuration == 2
MaxTime == 2

\* private readonly MAX_CALLS = 10000, scaled to the capacity of spec scenario 5
MAX_CALLS == 2
\* private readonly CLEANUP_THRESHOLD_MS = 300000, scaled to one time unit
CLEANUP_THRESHOLD_MS == 1

\* durationMs is a number >= 0
Durations == 0..MaxDuration
Timestamps == 1..MaxTime
\* Date.now() as read by cleanup(): cutoffs from "nothing is old" to "all is old"
Clock == {CLEANUP_THRESHOLD_MS + t : t \in 1..(MaxTime + 1)}

\* the two readings of Date.now() that differ for nodes started at time 1
TopologyClock == {CLEANUP_THRESHOLD_MS + 1, CLEANUP_THRESHOLD_MS + 2}

Parents == Ids \cup {Undefined}

Messages == [callId : Ids, parentCallId : Parents,
             duration : Durations, timestamp : Timestamps]

\* messages that differ in duration only, and in start time only
DurationMessages == {m \in Messages : m.timestamp = 1}
TimeMessages == {m \in Messages : m.duration = 1}
\* messages that differ in topology only
TopologyMessages == {m \in Messages : m.duration = 1 /\ m.timestamp = 1}
\* messages without a parent, differing in start time only
CleanupMessages == {m \in TimeMessages : m.parentCallId = Undefined}

-----------------------------------------------------------------------------
(* Helpers *)

Max(x, y) == IF x >= y THEN x ELSE y

\* JavaScript numbers that are not numbers of the model: the value undefined
\* read from a field the message does not have, and NaN
Missing == -1
NaN == -2

IsNumber(x) == x \notin {Missing, NaN}

\* x + y on JavaScript numbers: undefined converts to NaN, NaN is absorbing
JSAdd(x, y) == IF IsNumber(x) /\ IsNumber(y) THEN x + y ELSE NaN

\* x < y on JavaScript numbers: false when either side converts to NaN
JSLess(x, y) == IsNumber(x) /\ IsNumber(y) /\ x < y

\* JavaScript truthiness of an optional string: undefined and "" are falsy
IsFalsy(s) == s = Undefined \/ s = ""

\* position of key k in a Map (0 when absent)
IndexOf(m, k) ==
    IF \E i \in 1..Len(m) : m[i].callId = k
    THEN CHOOSE i \in 1..Len(m) : m[i].callId = k
    ELSE 0

MapHas(m, k) == IndexOf(m, k) # 0

MapGet(m, k) == m[IndexOf(m, k)]

Keys(m) == {m[i].callId : i \in 1..Len(m)}

\* Map.prototype.set: replace in place when the key is present, else append
MapSet(m, node) ==
    IF MapHas(m, node.callId)
    THEN [m EXCEPT ![IndexOf(m, node.callId)] = node]
    ELSE Append(m, node)

\* messages as the socket delivers them: JSON.parse checks no field, so a
\* message may lack callId, duration or timestamp (the read gives undefined)
PartialMessages ==
    [callId : Ids \cup {Undefined}, parentCallId : {Undefined},
     duration : {1, Missing}, timestamp : {1, Missing}]

\* a field is required when the record type declares it without "?"
LacksRequiredField(message) ==
    \/ message.callId = Undefined
    \/ message.duration = Missing
    \/ message.timestamp = Missing

\* the value of lastCall while no message has been handed to the store
NoCall ==
    [made |-> FALSE,
     message |-> [callId |-> Undefined, parentCallId |-> Undefined,
                  duration |-> Missing, timestamp |-> Missing],
     now |-> 0, before |-> <<>>, stored |-> FALSE]

-----------------------------------------------------------------------------
(* addCall, cleanup, clear *)

\* the node literal of addCall
NewNode(message) ==
    [callId       |-> message.callId,
     parentCallId |-> message.parentCallId,
     duration     |-> message.duration,
     startTime    |-> message.timestamp,
     endTime      |-> JSAdd(message.timestamp, message.duration),
     children     |-> <<>>,
     selfTime     |-> message.duration,
     obj          |-> "stored"]

\* a cleanup that also deletes the nodes started exactly at the cutoff
CleanupInclusive(m, now) ==
    LET cutoffTime == now - CLEANUP_THRESHOLD_MS
        Keep(node) == ~(IsNumber(node.startTime) /\ node.startTime <= cutoffTime)
    IN SelectSeq(m, Keep)

\* cleanup(): delete every node with startTime < Date.now() - CLEANUP_THRESHOLD_MS
Cleanup(m, now) ==
    LET cutoffTime == now - CLEANUP_THRESHOLD_MS
        Keep(node) == ~JSLess(node.startTime, cutoffTime)
    IN SelectSeq(m, Keep)

\* "Auto-cleanup if max size reached": the store after the first statement of addCall
CleanedFor(m, now) == IF Len(m) >= MAX_CALLS THEN Cleanup(m, now) ELSE m

\* the store after addCall(message) when Date.now() reads now
AddCallResult(m, message, now) == MapSet(CleanedFor(m, now), NewNode(message))

-----------------------------------------------------------------------------
(* buildCallTree *)

\* the clone stored in place of the node: no copy is made
CloneNodeShared(node) == node

\* nodeMap.set(callId, { ...node, children: [] }): a fresh object per node
CloneNode(node) == [node EXCEPT !.children = <<>>, !.obj = "clone"]

\* "Clone all nodes": the first loop of buildCallTree
CloneAll(m) == [i \in 1..Len(m) |-> CloneNode(m[i])]

\* parent lookup that only finds entries visited before entry i
ResolveParentEarlier(nm, i) ==
    LET p == IndexOf(nm, nm[i].parentCallId)
    IN IF p < i THEN p ELSE 0

\* nodeMap.get(node.parentCallId): position of the parent in nodeMap, 0 for undefined
ResolveParent(nm, i) == IndexOf(nm, nm[i].parentCallId)

\* loop body that also takes a node naming itself as parent for a root
LinkNodeSelfRoot(st, i) ==
    LET node == st.nodeMap[i]
        p == ResolveParent(st.nodeMap, i)
        rooted == IF IsFalsy(node.parentCallId) \/ node.parentCallId = node.callId
                  THEN [st EXCEPT !.roots = Append(@, node.callId)]
                  ELSE st
    IN IF ~IsFalsy(node.parentCallId) /\ p # 0
       THEN [rooted EXCEPT !.nodeMap[p].children = Append(@, node.callId)]
       ELSE rooted

\* "Build relationships": the body of the second loop, for entry i of nodeMap.
\* st = [nodeMap, roots]
LinkNode(st, i) ==
    LET node == st.nodeMap[i]
        p == ResolveParent(st.nodeMap, i)
    IN IF IsFalsy(node.parentCallId)
       THEN [st EXCEPT !.roots = Append(@, node.callId)]
       ELSE IF p # 0
            THEN [st EXCEPT !.nodeMap[p].children = Append(@, node.callId)]
            ELSE st

RECURSIVE LinkFrom(_, _)
\* the second loop of buildCallTree from entry i on
LinkFrom(st, i) ==
    IF i > Len(st.nodeMap) THEN st ELSE LinkFrom(LinkNode(st, i), i + 1)

RECURSIVE SumDurations(_, _)
\* node.children.reduce((sum, child) => sum + child.duration, 0)
SumDurations(nm, children) ==
    IF children = <<>> THEN 0
    ELSE MapGet(nm, Head(children)).duration + SumDurations(nm, Tail(children))

\* self time without the clamp at zero
SelfTimeOfUnclamped(nm, node) ==
    IF Len(node.children) > 0
    THEN node.duration - SumDurations(nm, node.children)
    ELSE node.duration

\* the value calculateSelfTimes assigns to node.selfTime
SelfTimeOf(nm, node) ==
    IF Len(node.children) > 0
    THEN Max(0, node.duration - SumDurations(nm, node.children))
    ELSE node.duration

\* One iteration of the for-of loop of the innermost calculateSelfTimes call.
\* st = [nodeMap, stack]; a frame [nodes, i] is a call on the list nodes whose
\* loop is at element i.  A finished loop returns (pops); a node with children
\* is assigned and then recursed into (pushes).
SelfTimeStep(st) ==
    LET d == Len(st.stack)
        top == st.stack[d]
    IN IF top.i > Len(top.nodes)
       THEN [st EXCEPT !.stack = SubSeq(@, 1, d - 1)]
       ELSE LET k == IndexOf(st.nodeMap, top.nodes[top.i])
                node == st.nodeMap[k]
                assigned == [st.nodeMap EXCEPT ![k].selfTime = SelfTimeOf(st.nodeMap, node)]
                advanced == [st.stack EXCEPT ![d].i = @ + 1]
            IN IF Len(node.children) > 0
               THEN [nodeMap |-> assigned,
                     stack |-> Append(advanced, [nodes |-> node.children, i |-> 1])]
               ELSE [nodeMap |-> assigned, stack |-> advanced]

RECURSIVE RunSelfTimes(_)
\* this.calculateSelfTimes(roots), run to its return
RunSelfTimes(st) ==
    IF st.stack = <<>> THEN st ELSE RunSelfTimes(SelfTimeStep(st))

\* buildCallTree() on store contents m: the roots and the nodes they reference
BuildCallTree(m) ==
    LET linked == LinkFrom([nodeMap |-> CloneAll(m), roots |-> <<>>], 1)
        timed == RunSelfTimes([nodeMap |-> linked.nodeMap,
                               stack |-> <<[nodes |-> linked.roots, i |-> 1]>>])
    IN [roots |-> linked.roots, nodeMap |-> timed.nodeMap]

\* a write to a nodeMap entry reaches the stored node when both are one object
WriteThrough(m, entry) ==
    IF entry.obj = "stored" /\ MapHas(m, entry.callId)
    THEN [m EXCEPT ![IndexOf(m, entry.callId)] = entry]
    ELSE m

RECURSIVE WriteAll(_, _, _)
\* the store after the writes made to the entries of nm from position i on
WriteAll(m, nm, i) ==
    IF i > Len(nm) THEN m ELSE WriteAll(WriteThrough(m, nm[i]), nm, i + 1)

-----------------------------------------------------------------------------
(* The state machine *)

Building == {"clone", "link", "selfTimes"}

\* a handler that may start at any point of a running build
CanDispatchAnywhere(p) == TRUE

\* buildCallTree is synchronous (it awaits nothing): the event loop starts
\* another handler only while no build is on the stack
CanDispatch(p) == p \notin Building

\* no comparison has been asked for
NoComparison == [status |-> "none", threshold |-> 0, entries |-> <<>>]

IdleCompare ==
    /\ baseline = <<>>
    /\ current = <<>>
    /\ comparison = NoComparison
    /\ view = FALSE

\* no loadSnapshot has returned
NoLoad == [status |-> "none", snapshot |-> <<>>, origin |-> <<>>, intact |-> TRUE]

\* the history of the storage operations is not kept
NoLog ==
    [on |-> FALSE, op |-> "none", id |-> <<>>, status |-> "ok",
     removalFailed |-> FALSE, written |-> {}]

\* an empty storage directory that no storage manager has opened
IdleStorage ==
    /\ files = {}
    /\ clock = 1
    /\ loaded = NoLoad
    /\ lastOp = "none"
    /\ tasks = <<>>

\* nothing has been projected from the forest
NoFlame == [status |-> "none", nodes |-> <<>>, totalDuration |-> 0]

InitBuilder ==
    /\ calls = <<>>
    /\ pc = "idle"
    /\ nodeMap = <<>>
    /\ roots = <<>>
    /\ idx = 1
    /\ stack = <<>>
    /\ steps = 0
    /\ seen = {}
    /\ overwritten = {}
    /\ lastCall = NoCall
    /\ flame = NoFlame

\* the method keys of the messages handled
SessionKeys == {"A.f", "B.g"}

\* no duration for any key
NoDurations == [key \in SessionKeys |-> <<>>]

\* the value of returned while no stopCapture call has returned
NothingReturned ==
    [made |-> FALSE, saved |-> <<>>, session |-> NoDurations,
     callSeen |-> FALSE, aliased |-> FALSE, held |-> <<>>]

\* activate(): the stores are empty; new SnapshotCaptureManager()
IdleSession ==
    /\ performanceStore = <<>>
    /\ located = {}
    /\ isCapturing = FALSE
    /\ captureStartTime = 0
    /\ capturedData = {}
    /\ capturedCallStacks = <<>>
    /\ returned = NothingReturned
    /\ sessionLog = [handled |-> 0, received |-> NoDurations,
                     observed |-> NoDurations, callSeen |-> FALSE]

\* no timer is pending: "reconnectTimer: number | null = null"
NoTimer == -1

\* new XRayWebSocketClient(): the constructor calls connect()
InitProbe ==
    /\ ws = "connecting"
    /\ detached = FALSE
    /\ reconnectTimer = NoTimer
    /\ messageQueue = <<>>
    /\ batchTimer = NoTimer
    /\ disconnected = FALSE
    /\ probeLog = [lastBatch |-> 0, closedFor |-> NoTimer]

\* the capture sessions and the stopCapture calls a run makes at most
MaxSessions == 2
MaxStops == 3

\* the message of the error stopCapture throws
NoActiveSession == "No active capture session"

\* the history of the stopCapture calls is not kept
NoStopLog ==
    [on |-> FALSE, session |-> 0, stops |-> 0, error |-> "none",
     made |-> [s \in 0..MaxSessions |-> 0]]

\* the history of the messages is not kept
NoSendLog == [on |-> FALSE, passed |-> <<>>, transmitted |-> <<>>]

\* no tracked invocation has completed
NoTrackedMessage ==
    [made |-> FALSE, callId |-> Missing, parentCallId |-> Missing,
     stackDepth |-> 0, caller |-> Missing, enclosing |-> 0, before |-> <<>>]

\* new CallStackManager(); no tracked method is running
InitTracker ==
    /\ callStack = <<>>
    /\ callIdCounter = 0
    /\ running = <<>>
    /\ awaiting = {}
    /\ trackLog = NoTrackedMessage

\* everything but the histories that are kept on demand
InitQuiet ==
    /\ InitBuilder /\ IdleCompare /\ IdleStorage /\ IdleSession
    /\ InitProbe /\ InitTracker

\* no history of sends, stops or storage operations is kept
InitLogs == sendLog = NoSendLog /\ stopLog = NoStopLog /\ storageLog = NoLog

Init == InitQuiet /\ InitLogs

\* the statements of addCall(message); track switches the history variable
\* overwritten on
AddCallStore(message, now, track) ==
    /\ CanDispatch(pc)
    /\ calls' = AddCallResult(calls, message, now)
    /\ seen' = IF pc \in Building THEN seen \cup {calls'} ELSE seen
    /\ overwritten' =
         IF track
         THEN ((overwritten \cap Keys(calls')) \ {message.callId})
              \cup (IF MapHas(CleanedFor(calls, now), message.callId)
                    THEN {message.callId} ELSE {})
         ELSE {}
    /\ UNCHANGED <<pc, nodeMap, roots, idx, stack, steps, flame>>

\* addCall(message): nothing but the builder changes
AddCallCore(message, now, track) ==
    /\ AddCallStore(message, now, track)
    /\ UNCHANGED restVars

\* addCall(message), called by handlePerformanceMessage
AddCall(message, now, track) ==
    /\ AddCallCore(message, now, track)
    /\ UNCHANGED lastCall

\* addCall(message), with the call recorded in the history variable lastCall
AddCallLogged(message, now) ==
    /\ AddCallCore(message, now, FALSE)
    /\ lastCall' = [made |-> TRUE, message |-> message, now |-> now,
                    before |-> calls, stored |-> TRUE]

\* the end of handlePerformanceMessage: "if (msgV2.callId) {
\* callStackBuilder.addCall(msgV2) }"; nothing is thrown on either branch
HandleCallMessage(message, now) ==
    IF IsFalsy(message.callId)
    THEN /\ CanDispatch(pc)
         /\ lastCall' = [made |-> TRUE, message |-> message, now |-> now,
                         before |-> calls, stored |-> FALSE]
         /\ UNCHANGED <<calls, pc, nodeMap, roots, idx, stack, steps, seen,
                        overwritten, flame, restVars>>
    ELSE AddCallLogged(message, now)

\* clear()
Clear ==
    /\ CanDispatch(pc)
    /\ calls' = <<>>
    /\ seen' = IF pc \in Building THEN seen \cup {calls'} ELSE seen
    /\ overwritten' = {}
    /\ lastCall' = NoCall
    /\ UNCHANGED <<pc, nodeMap, roots, idx, stack, steps, flame, restVars>>

\* buildCallTree() is entered: roots and nodeMap are created empty
StartBuild ==
    /\ pc = "idle"
    /\ pc' = "clone"
    /\ nodeMap' = <<>>
    /\ roots' = <<>>
    /\ idx' = 1
    /\ stack' = <<>>
    /\ steps' = 0
    /\ seen' = {calls}
    /\ UNCHANGED <<calls, overwritten, lastCall, flame, restVars>>

\* one iteration of "for (const [callId, node] of this.calls)", or its end
CloneStep ==
    /\ pc = "clone"
    /\ IF idx <= Len(calls)
       THEN /\ nodeMap' = MapSet(nodeMap, CloneNode(calls[idx]))
            /\ idx' = idx + 1
            /\ pc' = pc
       ELSE /\ pc' = "link"
            /\ idx' = 1
            /\ nodeMap' = nodeMap
    /\ steps' = steps + 1
    /\ UNCHANGED <<calls, roots, stack, seen, overwritten, lastCall, flame, restVars>>

\* one iteration of "for (const [callId, node] of nodeMap)", or its end and
\* the call this.calculateSelfTimes(roots)
LinkStep ==
    /\ pc = "link"
    /\ IF idx <= Len(nodeMap)
       THEN LET st == LinkNode([nodeMap |-> nodeMap, roots |-> roots], idx)
            IN /\ nodeMap' = st.nodeMap
               /\ roots' = st.roots
               /\ idx' = idx + 1
               /\ pc' = pc
               /\ stack' = stack
       ELSE /\ pc' = "selfTimes"
            /\ stack' = <<[nodes |-> roots, i |-> 1]>>
            /\ UNCHANGED <<nodeMap, roots, idx>>
    /\ calls' = WriteAll(calls, nodeMap', 1)
    /\ steps' = steps + 1
    /\ UNCHANGED <<seen, overwritten, lastCall, flame, restVars>>

\* one loop iteration of calculateSelfTimes, or the return of buildCallTree
SelfTimesStep ==
    /\ pc = "selfTimes"
    /\ IF stack # <<>>
       THEN LET st == SelfTimeStep([nodeMap |-> nodeMap, stack |-> stack])
            IN /\ nodeMap' = st.nodeMap
               /\ stack' = st.stack
               /\ pc' = pc
       ELSE /\ pc' = "done"
            /\ UNCHANGED <<nodeMap, stack>>
    /\ calls' = WriteAll(calls, nodeMap', 1)
    /\ steps' = steps + 1
    /\ UNCHANGED <<roots, idx, seen, overwritten, lastCall, flame, restVars>>

\* the caller drops the forest it was returned, and what it projected from it
Release ==
    /\ pc = "done"
    /\ pc' = "idle"
    /\ nodeMap' = <<>>
    /\ roots' = <<>>
    /\ idx' = 1
    /\ stack' = <<>>
    /\ steps' = 0
    /\ seen' = {}
    /\ flame' = NoFlame
    /\ UNCHANGED <<calls, overwritten, lastCall, restVars>>

BuildSteps == StartBuild \/ CloneStep \/ LinkStep \/ SelfTimesStep \/ Release

\* every message shape; the store changes between builds only
Next ==
    \/ \E message \in Messages, now \in Clock :
          pc = "idle" /\ AddCall(message, now, FALSE)
    \/ pc = "idle" /\ Clear
    \/ BuildSteps

Spec == Init /\ [][Next]_vars

\* messages that differ in duration
NextDuration ==
    \/ \E message \in DurationMessages, now \in Clock :
          pc = "idle" /\ AddCall(message, now, FALSE)
    \/ pc = "idle" /\ Clear
    \/ BuildSteps

SpecDuration == Init /\ [][NextDuration]_vars

\* messages that differ in start time
NextTime ==
    \/ \E message \in TimeMessages, now \in Clock :
          pc = "idle" /\ AddCall(message, now, FALSE)
    \/ pc = "idle" /\ Clear
    \/ BuildSteps

SpecTime == Init /\ [][NextTime]_vars

\* messages that differ in topology; duplicate inserts are recorded
NextTopology ==
    \/ \E message \in TopologyMessages, now \in TopologyClock :
          pc = "idle" /\ AddCall(message, now, TRUE)
    \/ pc = "idle" /\ Clear
    \/ BuildSteps

SpecTopology == Init /\ [][NextTopology]_vars

\* messages that differ in topology; the producer runs whenever the event
\* loop lets it, also while the reader holds a forest it was returned
NextReader ==
    \/ \E message \in TopologyMessages, now \in TopologyClock :
          AddCall(message, now, FALSE)
    \/ Clear
    \/ BuildSteps

SpecReader == Init /\ [][NextReader]_vars

\* the store only, fed by the socket handler with messages of any shape
NextBoundary ==
    \/ \E message \in PartialMessages, now \in TopologyClock :
          HandleCallMessage(message, now)
    \/ Clear

SpecBoundary == Init /\ [][NextBoundary]_vars

\* the store only, fed with well-formed messages of different start times
NextCleanup ==
    \/ \E message \in CleanupMessages, now \in Clock :
          AddCallLogged(message, now)
    \/ Clear

SpecCleanup == Init /\ [][NextCleanup]_vars

\* the forest a finished build returned
Forest == [roots |-> roots, nodeMap |-> nodeMap]

-----------------------------------------------------------------------------
(* Flame graph projection: FlameGraphViewProvider.updateFlameGraphInternal  *)
(* and the native buildFlameGraphData it calls.  A percentage is kept      *)
(* exact as the pair <<num, den>> that stands for the quotient num / den;  *)
(* <<0, 0>> is what 0 / 0 gives.                                           *)

RECURSIVE SerializeNode(_, _)
\* JSON.stringify of one node of the forest: children are nested objects
SerializeNode(nm, id) ==
    LET node == MapGet(nm, id)
    IN [callId   |-> node.callId,
        duration |-> node.duration,
        selfTime |-> node.selfTime,
        children |-> [i \in 1..Len(node.children) |->
                         SerializeNode(nm, node.children[i])]]

\* JSON.stringify(callStacks)
SerializeForest(forest) ==
    [i \in 1..Len(forest.roots) |-> SerializeNode(forest.nodeMap, forest.roots[i])]

RECURSIVE FlameNode(_, _)
\* the flame node of a call-tree node at the given depth below its root. The
\* percentage of the node is left out: the projector is not in the source,
\* and what is written about it gives the quotient of the node's duration and
\* its root's times 100 in one place and the range 0..100 in another, which
\* differ for a child that lasts longer than its root and for a root of
\* duration 0
FlameNode(tree, depth) ==
    [id         |-> tree.callId,
     value      |-> tree.duration,
     selfValue  |-> tree.selfTime,
     depth      |-> depth,
     children   |-> [i \in 1..Len(tree.children) |->
                        FlameNode(tree.children[i], depth + 1)]]

RECURSIVE SumRootDurations(_, _)
\* the sum of the durations of trees[i..]
SumRootDurations(trees, i) ==
    IF i > Len(trees) THEN 0
    ELSE trees[i].duration + SumRootDurations(trees, i + 1)

\* nativeModule.buildFlameGraphData(callStackJson)
BuildFlameGraphData(trees) ==
    [status |-> "shown",
     nodes |-> [i \in 1..Len(trees) |-> FlameNode(trees[i], 0)],
     totalDuration |-> SumRootDurations(trees, 1)]

\* updateFlameGraphInternal(callStacks, ...), which autoRefresh and
\* manualRefresh call with the forest of a build that has a root
UpdateFlameGraph ==
    /\ pc = "done"
    /\ roots # <<>>
    /\ flame = NoFlame
    /\ flame' = BuildFlameGraphData(SerializeForest(Forest))
    /\ UNCHANGED <<calls, pc, nodeMap, roots, idx, stack, steps, seen,
                   overwritten, lastCall, restVars>>

\* messages that differ in duration; every forest is projected
NextFlame ==
    \/ \E message \in DurationMessages, now \in Clock :
          pc = "idle" /\ AddCall(message, now, FALSE)
    \/ pc = "idle" /\ Clear
    \/ BuildSteps
    \/ UpdateFlameGraph

SpecFlame == Init /\ [][NextFlame]_vars

-----------------------------------------------------------------------------
(* Snapshot comparison: ComparisonViewProvider.compareSnapshots, the native *)
(* comparePerformanceSnapshots it calls, and calculateSummary of the view.  *)
(* A methods map is a function from the method keys it holds to their      *)
(* aggregates; field executions is copied next to averageDuration and is   *)
(* read by nothing in the comparison, it is left out.  The actions of      *)
(* compareSnapshots follow the snapshot storage they call.                 *)

MethodKeys == {"A.f", "B.g"}
\* the order in which the entries of a comparison are listed
KeyOrder == <<"A.f", "B.g">>

\* averages around the spec scenarios (baseline 100; current 103, 105, 106)
Averages == {0, 100, 103, 105, 106}

\* "5.0, // 5% threshold": the threshold compareSnapshots passes
REGRESSION_THRESHOLD == 5

\* thresholds a caller of the native function may pass
Thresholds == {-1, 0, 3, REGRESSION_THRESHOLD}

\* a nullable number of MethodPerformanceDiff
Some(x) == [some |-> TRUE, v |-> x]
Null == [some |-> FALSE, v |-> 0]
\* a nullable quotient num / den, kept exact as the pair <<num, den>>
NullRatio == [some |-> FALSE, v |-> <<0, 1>>]

Abs(x) == IF x < 0 THEN 0 - x ELSE x

\* a preparation that skips the methods whose average is falsy (0)
PrepareDataTruthy(methods) ==
    [key \in {k \in DOMAIN methods : methods[k].averageDuration # 0} |->
        [averageDuration |-> methods[key].averageDuration]]

\* "Prepare data for Rust comparison": key -> { averageDuration, executions }
PrepareData(methods) ==
    [key \in DOMAIN methods |->
        [averageDuration |-> methods[key].averageDuration]]

\* a classification that takes a change equal to the threshold as unchanged
ClassifyInclusive(baselineAvg, currentAvg, thresholdPercent) ==
    LET absoluteChange == currentAvg - baselineAvg
    IN IF Abs(absoluteChange * 100) <= thresholdPercent * baselineAvg
       THEN "unchanged"
       ELSE IF absoluteChange > 0 THEN "regressed" ELSE "improved"

\* classification of a key of both maps: unchanged if |percentChange| <
\* threshold, else regressed if percentChange > 0, else improved; with a zero
\* baseline there is no percentChange and the absolute change decides
Classify(baselineAvg, currentAvg, thresholdPercent) ==
    LET absoluteChange == currentAvg - baselineAvg
    IN IF baselineAvg = 0
       THEN IF absoluteChange > 0 THEN "regressed"
            ELSE IF absoluteChange < 0 THEN "improved"
            ELSE "unchanged"
       ELSE IF Abs(absoluteChange * 100) < thresholdPercent * baselineAvg
            THEN "unchanged"
            ELSE IF absoluteChange > 0 THEN "regressed" ELSE "improved"

\* an entry maker that reports a one-sided key as a change from or to zero
DiffEntryZeroFilled(baselineData, currentData, key, thresholdPercent) ==
    LET b == IF key \in DOMAIN baselineData
             THEN baselineData[key].averageDuration ELSE 0
        c == IF key \in DOMAIN currentData
             THEN currentData[key].averageDuration ELSE 0
    IN [methodKey |-> key, baselineAvg |-> Some(b), currentAvg |-> Some(c),
        percentageChange |->
            IF b = 0 THEN NullRatio ELSE Some(<<(c - b) * 100, b>>),
        absoluteChange |-> Some(c - b),
        diffType |-> Classify(b, c, thresholdPercent)]

\* the entry of one key of the union
DiffEntry(baselineData, currentData, key, thresholdPercent) ==
    IF key \notin DOMAIN currentData
    THEN [methodKey |-> key,
          baselineAvg |-> Some(baselineData[key].averageDuration),
          currentAvg |-> Null, percentageChange |-> NullRatio,
          absoluteChange |-> Null, diffType |-> "removed"]
    ELSE IF key \notin DOMAIN baselineData
    THEN [methodKey |-> key, baselineAvg |-> Null,
          currentAvg |-> Some(currentData[key].averageDuration),
          percentageChange |-> NullRatio,
          absoluteChange |-> Null, diffType |-> "new"]
    ELSE LET b == baselineData[key].averageDuration
             c == currentData[key].averageDuration
         IN [methodKey |-> key, baselineAvg |-> Some(b), currentAvg |-> Some(c),
             percentageChange |->
                 IF b = 0 THEN NullRatio ELSE Some(<<(c - b) * 100, b>>),
             absoluteChange |-> Some(c - b),
             diffType |-> Classify(b, c, thresholdPercent)]

RECURSIVE DiffEntriesOfBaseline(_, _, _, _)
\* a comparator that walks the keys of the baseline only
DiffEntriesOfBaseline(baselineData, currentData, thresholdPercent, i) ==
    IF i > Len(KeyOrder) THEN <<>>
    ELSE LET key == KeyOrder[i]
             rest == DiffEntriesOfBaseline(baselineData, currentData,
                                           thresholdPercent, i + 1)
         IN IF key \in DOMAIN baselineData
            THEN <<DiffEntry(baselineData, currentData, key, thresholdPercent)>>
                 \o rest
            ELSE rest

RECURSIVE DiffEntries(_, _, _, _)
\* the entries of the keys KeyOrder[i..] that are in either map
DiffEntries(baselineData, currentData, thresholdPercent, i) ==
    IF i > Len(KeyOrder) THEN <<>>
    ELSE LET key == KeyOrder[i]
             rest == DiffEntries(baselineData, currentData, thresholdPercent, i + 1)
         IN IF key \in DOMAIN baselineData \cup DOMAIN currentData
            THEN <<DiffEntry(baselineData, currentData, key, thresholdPercent)>>
                 \o rest
            ELSE rest

\* a comparator that accepts every threshold
AnyThreshold(thresholdPercent) == TRUE

\* a threshold the comparator accepts
ValidThreshold(thresholdPercent) == thresholdPercent > 0

\* nativeModule.comparePerformanceSnapshots(baselineJson, currentJson, threshold)
ComparePerformanceSnapshots(baselineData, currentData, thresholdPercent) ==
    IF ~ValidThreshold(thresholdPercent)
    THEN [status |-> "InvalidArgument", threshold |-> thresholdPercent,
          entries |-> <<>>]
    ELSE [status |-> "ok", threshold |-> thresholdPercent,
          entries |-> DiffEntries(baselineData, currentData, thresholdPercent, 1)]

\* data.filter(r => r.diffType === t).length
CountType(data, t) == Cardinality({i \in 1..Len(data) : data[i].diffType = t})

\* calculateSummary(data) of the comparison view
CalculateSummary(data) ==
    [total     |-> Len(data),
     improved  |-> CountType(data, "improved"),
     regressed |-> CountType(data, "regressed"),
     new       |-> CountType(data, "new"),
     removed   |-> CountType(data, "removed"),
     unchanged |-> CountType(data, "unchanged")]

builderVars == <<calls, pc, nodeMap, roots, idx, stack, steps, seen,
                 overwritten, lastCall, flame>>


-----------------------------------------------------------------------------
(* Snapshot storage: SnapshotStorageManager (src/storage/snapshotManager.ts, *)
(* kept as src/unnamed/part_002) and the native gzip codec it calls.  A     *)
(* string is the sequence of its characters.  A snapshot is a record; its  *)
(* methods Map is a function from method keys to aggregates (the keys are  *)
(* not integer-like, so Object.fromEntries and Object.entries keep them).  *)
(* The fields className, methodName, filePath and line of an aggregate and *)
(* gitCommit of a snapshot are carried like gitBranch and are left out.    *)
(* A file is a record of the two variable parts of its name, its bytes,    *)
(* and origin: the snapshot object that saveSnapshot wrote it from (not a  *)
(* part of the program's state).                                           *)

\* private readonly MAX_SNAPSHOTS = 50, scaled
MAX_SNAPSHOTS == 2
\* private readonly MAX_AGE_DAYS = 30, scaled; the clock counts days
MAX_AGE_DAYS == 2

\* the last day of the model
MaxClock == 4
\* the most performance messages of one method that a capture has seen
MaxObservations == 2
\* the files the directory holds at most when a save starts
MaxFiles == 4

\* JSON null
JsonNull == -3

DigitChars == <<"0", "1", "2", "3", "4", "5", "6", "7", "8", "9">>

RECURSIVE Digits(_)
\* Number.prototype.toString, and `${n}` in a template literal
Digits(n) ==
    IF n < 10 THEN <<DigitChars[n + 1]>>
    ELSE Digits(n \div 10) \o <<DigitChars[(n % 10) + 1]>>

\* String.prototype.includes
Includes(str, part) ==
    \E i \in 0..(Len(str) - Len(part)) : SubSeq(str, i + 1, i + Len(part)) = part

\* one character of name.replace(/[^a-z0-9]/gi, '_').toLowerCase()
SanitizeChar(c) ==
    IF c = "R" THEN "r"
    ELSE IF c \in {"r"} \cup {DigitChars[i] : i \in 1..10} THEN c
    ELSE "_"

\* sanitize(name)
Sanitize(name) == [i \in 1..Len(name) |-> SanitizeChar(name[i])]

\* the names a user gives a snapshot (showInputBox lets no empty name through)
Names == {<<"R">>, <<"1">>}

\* durations of the captured messages: multiples of 12, so that the average
\* of up to four of them is a whole number
CaptureDurations == {12, 24}

\* `snapshot_${timestamp}_${sanitized}.json.gz`
FileName(ts, sanitized) ==
    <<"s", "n", "a", "p", "s", "h", "o", "t", "_">> \o Digits(ts) \o <<"_">>
    \o sanitized \o <<".", "j", "s", "o", "n", ".", "g", "z">>

NameOf(file) == FileName(file.ts, file.name)

\* the record without the fields in dropped
Without(obj, dropped) == [k \in DOMAIN obj \ dropped |-> obj[k]]

(* The method aggregate of handlePerformanceMessage *)

\* "if (!perfData)": the aggregate made by the first message of a method
FirstAggregate(duration) ==
    [executions |-> <<>>, averageDuration |-> 0, lastDuration |-> duration]

RECURSIVE JSSum(_, _)
\* executions.reduce((a, b) => a + b, 0), from index i on
JSSum(executions, i) ==
    IF i > Len(executions) THEN 0
    ELSE JSAdd(executions[i], JSSum(executions, i + 1))

\* x / n for a sum x and a length n >= 1 that divides it
JSDiv(x, n) == IF IsNumber(x) THEN x \div n ELSE NaN

\* "else": the aggregate after a later message of the method
PushDuration(perfData, duration) ==
    LET executions == Append(perfData.executions, duration)
    IN [executions |-> executions,
        averageDuration |-> JSDiv(JSSum(executions, 1), Len(executions)),
        lastDuration |-> duration]

RECURSIVE AggregateFrom(_, _, _)
AggregateFrom(perfData, durations, i) ==
    IF i > Len(durations) THEN perfData
    ELSE AggregateFrom(PushDuration(perfData, durations[i]), durations, i + 1)

\* the aggregate of a method after messages with the given durations
AggregateOf(durations) ==
    AggregateFrom(FirstAggregate(durations[1]), durations, 2)

\* durations as the messages carry them: a message may lack the field
ObservedDurations ==
    UNION {[1..n -> CaptureDurations \cup {Missing}] : n \in 1..MaxObservations}

Aggregates == {AggregateOf(durations) : durations \in ObservedDurations}

RECURSIVE TotalCallsOver(_, _)
\* sum + m.executions.length over the values of the given keys
TotalCallsOver(methods, keys) ==
    IF keys = {} THEN 0
    ELSE LET key == CHOOSE k \in keys : TRUE
         IN Len(methods[key].executions) + TotalCallsOver(methods, keys \ {key})

\* Array.from(capturedData.values()).reduce((sum, m) => sum + m.executions.length, 0)
TotalCalls(methods) == TotalCallsOver(methods, DOMAIN methods)

\* the snapshot literal of stopCapture: reads holds what Date.now() gave
\* for id, for timestamp and for captureEndTime, start is captureStartTime
MakeSnapshot(name, reads, start, gitBranch, methods) ==
    [id |-> Digits(reads[1]), name |-> name, timestamp |-> reads[2],
     gitBranch |-> gitBranch, methods |-> methods, callStacks |-> <<>>,
     metadata |-> [totalMethods |-> Cardinality(DOMAIN methods),
                   totalCalls |-> TotalCalls(methods),
                   captureStartTime |-> start,
                   captureEndTime |-> reads[3]]]

\* the methods observed during a capture
CaptureKeys == {"A.f"}

\* capturedData at stopCapture
CapturedMethods == UNION {[S -> Aggregates] : S \in SUBSET CaptureKeys}

\* snapshots of one name that differ in content, taken now
CodecSnapshots(now) ==
    {MakeSnapshot(<<"R">>, <<now, now, now>>, now, gitBranch, methods) :
        gitBranch \in {Undefined, "main"}, methods \in CapturedMethods}

\* snapshots that differ in name only, taken now
PlainSnapshots(now) ==
    {MakeSnapshot(name, <<now, now, now>>, now, Undefined, <<>>) :
        name \in Names}

(* JSON.stringify and JSON.parse *)

\* a number as an array element: undefined and NaN are written as null
JsonElement(x) == IF IsNumber(x) THEN x ELSE JsonNull

\* JSON.stringify of an aggregate: a property whose value is undefined is
\* not written, NaN is written as null
StringifyAggregate(aggregate) ==
    Without(
        [executions |-> [i \in 1..Len(aggregate.executions) |->
                            JsonElement(aggregate.executions[i])],
         averageDuration |-> JsonElement(aggregate.averageDuration),
         lastDuration |-> aggregate.lastDuration],
        IF aggregate.lastDuration = Missing THEN {"lastDuration"} ELSE {})

\* JSON.stringify({...snapshot, methods: Object.fromEntries(snapshot.methods)})
Stringify(snapshot) ==
    [wellFormed |-> TRUE,
     value |-> Without(
        [snapshot EXCEPT !.methods =
            [key \in DOMAIN snapshot.methods |->
                StringifyAggregate(snapshot.methods[key])]],
        IF snapshot.gitBranch = Undefined THEN {"gitBranch"} ELSE {})]

\* what decompressSnapshotData returns or throws
DecodeError == [status |-> "DecodeError", text |-> [wellFormed |-> FALSE, value |-> <<>>]]

\* nativeModule.compressSnapshotData(snapshotJson): gzip, with its checksum
CompressSnapshotData(text) == [intact |-> TRUE, text |-> text]

\* a decompression that does not check the stream
DecompressUnchecked(bytes) == [status |-> "ok", text |-> bytes.text]

\* nativeModule.decompressSnapshotData(compressed)
DecompressSnapshotData(bytes) ==
    IF bytes.intact THEN [status |-> "ok", text |-> bytes.text] ELSE DecodeError

\* the bytes saveSnapshot writes
Encode(snapshot) == CompressSnapshotData(Stringify(snapshot))

\* the ways the bytes of a file go wrong, by what is left of the text if the
\* stream is read regardless: a text cut short, a text that lost the
\* property name, a text that lost the property methods
Damages == {"truncated", "lostName", "lostMethods"}

Damaged(bytes, how) ==
    [intact |-> FALSE,
     text |-> IF how = "truncated"
              THEN [bytes.text EXCEPT !.wellFormed = FALSE]
              ELSE IF how = "lostName"
              THEN [bytes.text EXCEPT !.value = Without(@, {"name"})]
              ELSE [bytes.text EXCEPT !.value = Without(@, {"methods"})]]

\* the rest of loadSnapshot once the file is read: decompress, JSON.parse,
\* { ...data, methods: new Map(Object.entries(data.methods)) }; every throw
\* is rethrown as "Failed to load snapshot"
Decode(bytes) ==
    LET json == DecompressSnapshotData(bytes)
    IN IF json.status # "ok" \/ ~json.text.wellFormed
          \/ "methods" \notin DOMAIN json.text.value
       THEN [status |-> "error", snapshot |-> <<>>]
       ELSE [status |-> "ok", snapshot |-> json.text.value]

(* The storage directory *)

\* files.find((f) => f.includes(id)): readdir gives the names in an order of
\* the file system's choosing, any file whose name includes id may be first
Matching(dir, id) == {file \in dir : Includes(NameOf(file), id)}

\* fs.promises.writeFile(filePath, compressed): a file of that name is replaced
WriteFile(dir, snapshot) ==
    LET sanitized == Sanitize(snapshot.name)
    IN {file \in dir : NameOf(file) # FileName(snapshot.timestamp, sanitized)}
       \cup {[ts |-> snapshot.timestamp, name |-> sanitized,
              bytes |-> Encode(snapshot), origin |-> snapshot]}

\* listSnapshots(): the results the sort can give, most recent first
Listings(dir) ==
    {listing \in [1..Cardinality(dir) -> dir] :
        /\ \A i, j \in DOMAIN listing : i # j => listing[i] # listing[j]
        /\ \A i, j \in DOMAIN listing : i < j => listing[i].ts >= listing[j].ts}

\* .map((s) => s.id)
IdsOf(listing) == [i \in DOMAIN listing |-> Digits(listing[i].ts)]

(* Asynchronous calls.  Every call of the storage manager awaits the file  *)
(* system: it runs up to its next await in one step and the event loop     *)
(* runs other callbacks in between.  A readdir, readFile, writeFile or     *)
(* unlink acts on the directory as it is when the awaiting call goes on.   *)
(* A pending call is a task: op is the call the caller made, pc the await  *)
(* it is at, id the id it looks up now, asked the id the caller passed,    *)
(* target the file that find() chose, toDelete the ids its eviction loop   *)
(* has still to delete, snapshot the snapshot it saves (compareSnapshots:  *)
(* the baseline it has loaded, second the id of the current snapshot).     *)
(* The fields from name on are those of a stopCapture call: name, and as   *)
(* history the durations of its session, whether the session saw a callId  *)
(* and the number of the session; aliased tells whether the callStacks of  *)
(* its snapshot object is still the array the manager pushes to, and held  *)
(* is what that array held when the manager let go of it.  before is, as   *)
(* history, the directory as it was when the call was made.                *)

\* the asynchronous calls that are pending at most
MaxTasks == 2

\* find() found no file yet
NoFile == [ts |-> 0, name |-> <<>>, bytes |-> <<>>, origin |-> <<>>]

NewTask(op, at, id) ==
    [op |-> op, pc |-> at, id |-> id, asked |-> id, second |-> <<>>,
     slot |-> "none", target |-> NoFile, toDelete |-> <<>>,
     snapshot |-> <<>>, name |-> <<>>, session |-> NoDurations,
     callSeen |-> FALSE, number |-> 0, aliased |-> FALSE, held |-> <<>>,
     before |-> {}]

\* what a logged operation leaves in the log, when the log is kept
Logged(op, id, status, failed, written) ==
    IF storageLog.on
    THEN [on |-> TRUE, op |-> op, id |-> id, status |-> status,
          removalFailed |-> failed, written |-> written]
    ELSE storageLog

\* the file saveSnapshot writes for a snapshot
FileOf(snapshot) ==
    [ts |-> snapshot.timestamp, name |-> Sanitize(snapshot.name),
     bytes |-> Encode(snapshot), origin |-> snapshot]

\* the files of the directory that have the name of file: one, or none when
\* the file was unlinked
Named(dir, file) == {f \in dir : NameOf(f) = NameOf(file)}

\* a sequence without its i-th element
Remove(seq, i) == SubSeq(seq, 1, i - 1) \o SubSeq(seq, i + 1, Len(seq))

\* the variables of the capture session that no storage call writes
captureVars == <<performanceStore, located, isCapturing, captureStartTime,
                 capturedData, capturedCallStacks, sessionLog>>

\* the variables that no step of a storage call writes
asideVars == <<builderVars, probeVars, trackVars, view, captureVars>>

\* what a settled call gives its caller, and the history of it
resultVars == <<loaded, lastOp, storageLog, returned, stopLog, baseline,
                current, comparison>>

\* a failed load: loadSnapshot threw
FailedLoad == [status |-> "error", snapshot |-> <<>>, origin |-> <<>>, intact |-> TRUE]

\* showErrorMessage(`Failed to compare snapshots: ${error}`): nothing is posted
CompareFailed ==
    [status |-> "error", threshold |-> REGRESSION_THRESHOLD, entries |-> <<>>]

\* the call tasks[i] settles: its promise resolves or rejects, and the
\* caller that awaits it goes on.  status is "ok", "notFound" or "error",
\* failed tells whether the eviction loop of the call threw (caught and
\* logged by enforceSnapshotLimit and cleanupOldSnapshots), result is what a
\* load gives
Settled(i, status, failed, result) ==
    LET task == tasks[i]
    IN /\ tasks' = Remove(tasks, i)
       /\ CASE task.op = "load" ->
                 /\ loaded' = result
                 /\ lastOp' = "load"
                 /\ storageLog' = Logged("load", task.asked, status, FALSE, {})
                 /\ UNCHANGED <<returned, stopLog, baseline, current, comparison>>
            [] task.op = "delete" ->
                 /\ lastOp' = "delete"
                 /\ storageLog' = Logged("delete", task.asked, status,
                                         status = "error", {})
                 /\ UNCHANGED <<loaded, returned, stopLog, baseline, current,
                                comparison>>
            [] task.op = "save" ->
                 /\ lastOp' = "save"
                 /\ storageLog' = Logged("save", <<>>, "ok", failed,
                                         {FileOf(task.snapshot)})
                 /\ UNCHANGED <<loaded, returned, stopLog, baseline, current,
                                comparison>>
            [] task.op = "open" ->
                 /\ lastOp' = "open"
                 /\ storageLog' = Logged("open", <<>>, "ok", failed, {})
                 /\ UNCHANGED <<loaded, returned, stopLog, baseline, current,
                                comparison>>
            [] task.op = "stop" ->
                 /\ lastOp' = "save"
                 /\ storageLog' = Logged("save", <<>>, "ok", failed,
                                         {FileOf(task.snapshot)})
                 /\ returned' = [made |-> TRUE, saved |-> task.snapshot,
                                 session |-> task.session,
                                 callSeen |-> task.callSeen,
                                 aliased |-> task.aliased,
                                 held |-> task.held]
                 /\ stopLog' = IF stopLog.on
                               THEN [stopLog EXCEPT !.made[task.number] = @ + 1]
                               ELSE stopLog
                 /\ UNCHANGED <<loaded, baseline, current, comparison>>
            [] task.op = "compare" ->
                 /\ IF status = "ok"
                    THEN /\ baseline' = task.snapshot.methods
                         /\ current' = result.snapshot.methods
                         /\ comparison' = ComparePerformanceSnapshots(
                                PrepareData(task.snapshot.methods),
                                PrepareData(result.snapshot.methods),
                                REGRESSION_THRESHOLD)
                    ELSE /\ comparison' = CompareFailed
                         /\ UNCHANGED <<baseline, current>>
                 /\ UNCHANGED <<loaded, lastOp, storageLog, returned, stopLog>>

\* this step settles the call tasks[i]
Settles(i) == i \in DOMAIN tasks /\ tasks' = Remove(tasks, i)

\* a call that goes on without settling
GoesOn(i, task) ==
    /\ tasks' = [tasks EXCEPT ![i] = task]
    /\ UNCHANGED resultVars

\* loadSnapshot(id), up to "await this.listSnapshotFiles()"
LoadSnapshot(id) ==
    /\ Len(tasks) < MaxTasks
    /\ tasks' = Append(tasks, NewTask("load", "list", id))
    /\ UNCHANGED <<asideVars, resultVars,
                   files, clock>>

\* deleteSnapshot(id), called for the snapshot picked in the manage command,
\* up to "await this.listSnapshotFiles()"
DeleteSnapshot(id) ==
    /\ Len(tasks) < MaxTasks
    /\ tasks' = Append(tasks, NewTask("delete", "list", id))
    /\ UNCHANGED <<asideVars, resultVars,
                   files, clock>>

\* the directory as it is when a save is called, when the history is kept
Before == IF storageLog.on THEN files ELSE {}

\* saveSnapshot(snapshot), up to "await fs.promises.writeFile": the snapshot
\* is serialized and compressed as it is now
SaveSnapshot(snapshot) ==
    /\ Len(tasks) < MaxTasks
    /\ Cardinality(files) < MaxFiles
    /\ tasks' = Append(tasks, [NewTask("save", "write", <<>>)
                                  EXCEPT !.snapshot = snapshot,
                                         !.before = Before])
    /\ UNCHANGED <<asideVars, resultVars,
                   files, clock>>

\* new SnapshotStorageManager(context, nativeModule): the constructor calls
\* cleanupOldSnapshots() and returns without awaiting it
OpenStore ==
    /\ Len(tasks) < MaxTasks
    /\ tasks' = Append(tasks, NewTask("open", "cleanup", <<>>))
    /\ lastOp' = "new"
    /\ UNCHANGED <<asideVars, files,
                   clock, loaded, storageLog, returned, stopLog, compareVars>>

\* "files.find((f) => f.includes(id))" once readdir has answered, in
\* loadSnapshot and in deleteSnapshot (called by the user or by an eviction
\* loop): "Snapshot ${id} not found" when no name includes id
FindFile(i) ==
    /\ i \in DOMAIN tasks
    /\ tasks[i].pc = "list"
    /\ LET task == tasks[i]
       IN IF Matching(files, task.id) = {}
          THEN IF task.op \in {"load", "delete", "compare"}
               THEN Settled(i, "notFound", FALSE, FailedLoad)
               ELSE Settled(i, "ok", TRUE, FailedLoad)
          ELSE \E file \in Matching(files, task.id) :
                  GoesOn(i, [task EXCEPT
                                !.target = file,
                                !.pc = IF task.op \in {"load", "compare"}
                                       THEN "read" ELSE "unlink"])
    /\ UNCHANGED <<asideVars, files, clock>>

\* what loadSnapshot makes of the file it chose once readFile has answered:
\* ENOENT when the file is gone, else the decoded bytes the name holds now
ReadResult(dir, target) ==
    IF Named(dir, target) = {} THEN FailedLoad
    ELSE LET file == CHOOSE f \in Named(dir, target) : TRUE
         IN [status |-> Decode(file.bytes).status,
             snapshot |-> Decode(file.bytes).snapshot,
             origin |-> file.origin,
             intact |-> file.bytes.intact]

\* the rest of loadSnapshot; compareSnapshots goes on to load the current
\* snapshot when it has the baseline
ReadFile(i) ==
    /\ i \in DOMAIN tasks
    /\ tasks[i].pc = "read"
    /\ LET task == tasks[i]
           result == ReadResult(files, task.target)
       IN IF task.op = "compare" /\ task.slot = "baseline"
             /\ result.status = "ok"
          THEN GoesOn(i, [task EXCEPT !.pc = "list", !.id = task.second,
                                      !.slot = "current", !.target = NoFile,
                                      !.snapshot = result.snapshot])
          ELSE Settled(i, result.status, FALSE, result)
    /\ UNCHANGED <<asideVars, files, clock>>

\* "await fs.promises.unlink(filePath)" answers: ENOENT when the file is
\* gone, an error when the disk refuses, else the file is removed.  An error
\* ends the eviction loop of a save or of the constructor
Unlink(i, refused) ==
    /\ i \in DOMAIN tasks
    /\ tasks[i].pc = "unlink"
    /\ LET task == tasks[i]
           named == Named(files, task.target)
           rest == IF task.toDelete = <<>> THEN <<>> ELSE Tail(task.toDelete)
       IN IF refused \/ named = {}
          THEN /\ files' = files
               /\ IF task.op = "delete"
                  THEN Settled(i, "error", TRUE, FailedLoad)
                  ELSE Settled(i, "ok", TRUE, FailedLoad)
          ELSE /\ files' = files \ named
               /\ IF task.op = "delete" \/ rest = <<>>
                  THEN Settled(i, "ok", FALSE, FailedLoad)
                  ELSE GoesOn(i, [task EXCEPT !.pc = "list", !.id = Head(rest),
                                              !.toDelete = rest,
                                              !.target = NoFile])
    /\ UNCHANGED <<asideVars, clock>>

\* "await fs.promises.writeFile(filePath, compressed)" answers, and
\* saveSnapshot calls enforceSnapshotLimit()
WriteAnswers(i) ==
    /\ i \in DOMAIN tasks
    /\ tasks[i].pc = "write"
    /\ files' = WriteFile(files, tasks[i].snapshot)
    /\ GoesOn(i, [tasks[i] EXCEPT !.pc = "enforce"])
    /\ UNCHANGED <<asideVars, clock>>

\* the eviction loop starts on the ids toDelete, or the call settles when
\* there is none
StartsLoop(i, toDelete) ==
    IF toDelete = <<>>
    THEN Settled(i, "ok", FALSE, FailedLoad)
    ELSE GoesOn(i, [tasks[i] EXCEPT !.pc = "list", !.id = Head(toDelete),
                                    !.toDelete = toDelete])

\* enforceSnapshotLimit() once listSnapshots() has answered: the ids after
\* the first MAX_SNAPSHOTS of the listing are deleted one after the other
EnforceSnapshotLimit(i) ==
    /\ i \in DOMAIN tasks
    /\ tasks[i].pc = "enforce"
    /\ \E listing \in Listings(files) :
          StartsLoop(i, IF Len(listing) > MAX_SNAPSHOTS
                        THEN IdsOf(SubSeq(listing, MAX_SNAPSHOTS + 1,
                                          Len(listing)))
                        ELSE <<>>)
    /\ UNCHANGED <<asideVars, files, clock>>

\* cleanupOldSnapshots() once listSnapshots() has answered: the listed ids
\* older than MAX_AGE_DAYS now are deleted one after the other
CleanupOldSnapshots(i) ==
    /\ i \in DOMAIN tasks
    /\ tasks[i].pc = "cleanup"
    /\ LET cutoffTime == clock - MAX_AGE_DAYS
           Old(file) == file.ts < cutoffTime
       IN \E listing \in Listings(files) :
             StartsLoop(i, IdsOf(SelectSeq(listing, Old)))
    /\ UNCHANGED <<asideVars, files, clock>>

\* the caller is done with what loadSnapshot gave it
DropLoaded ==
    /\ loaded # NoLoad
    /\ loaded' = NoLoad
    /\ UNCHANGED <<builderVars, compareVars, sessionVars, probeVars, trackVars, files,
                   clock, lastOp, storageLog, tasks>>

\* the bytes of a stored file go wrong on the disk
Damage(file, how) ==
    /\ loaded = NoLoad
    /\ file \in files
    /\ file.bytes.intact
    /\ files' = (files \ {file}) \cup {[file EXCEPT !.bytes = Damaged(@, how)]}
    /\ lastOp' = "damage"
    /\ UNCHANGED <<builderVars, compareVars, sessionVars, probeVars, trackVars,
                   clock, loaded, storageLog, tasks>>

\* a day passes
Tick ==
    /\ loaded = NoLoad
    /\ clock < MaxClock
    /\ clock' = clock + 1
    /\ lastOp' = "tick"
    /\ UNCHANGED <<builderVars, compareVars, sessionVars, probeVars, trackVars,
                   files, loaded, storageLog, tasks>>

\* the ids listSnapshots reports
ListedIds == {Digits(file.ts) : file \in files}

\* no call is pending and the caller holds no loaded snapshot
Idle == tasks = <<>> /\ loaded = NoLoad

(* compareSnapshots of the comparison view, on the stored snapshots *)

\* resolveWebviewView(webviewView): "this._view = webviewView"
ResolveWebviewView ==
    /\ ~view
    /\ view' = TRUE
    /\ UNCHANGED <<builderVars, baseline, current, comparison, storageVars,
                   sessionVars, probeVars, trackVars>>

\* "if (!this._view)": showWarningMessage, nothing is loaded
NotVisible ==
    [status |-> "noView", threshold |-> REGRESSION_THRESHOLD, entries |-> <<>>]

\* compareSnapshots(baselineId, currentId), up to the first await of
\* "await this.storageManager.loadSnapshot(baselineId)"
CompareSnapshots(baselineId, currentId) ==
    /\ IF ~view
       THEN /\ comparison' = NotVisible
            /\ tasks' = tasks
       ELSE /\ Len(tasks) < MaxTasks
            /\ comparison' = comparison
            /\ tasks' = Append(tasks, [NewTask("compare", "list", baselineId)
                                          EXCEPT !.second = currentId,
                                                 !.slot = "baseline"])
    /\ UNCHANGED <<asideVars, baseline, current, files, clock, loaded, lastOp,
                   storageLog, returned, stopLog>>

\* the native function called on the methods of two stored snapshots with a
\* threshold of the caller's choice
CompareWith(thresholdPercent) ==
    /\ \E b, c \in files :
          /\ b.ts < c.ts
          /\ baseline' = b.origin.methods
          /\ current' = c.origin.methods
          /\ comparison' = ComparePerformanceSnapshots(
                              PrepareData(b.origin.methods),
                              PrepareData(c.origin.methods), thresholdPercent)
    /\ UNCHANGED <<builderVars, view, storageVars, sessionVars, probeVars,
                   trackVars>>

\* a stored aggregate of the given average
AggregateWith(average) ==
    IF average = 0 THEN FirstAggregate(0)
    ELSE [executions |-> <<average>>, averageDuration |-> average,
          lastDuration |-> average]

\* the methods maps of the stored snapshots: the averages of the spec
\* scenarios for one method, those up to 103 for the other
MethodMaps ==
    UNION {{methods \in [S -> {AggregateWith(average) : average \in Averages}] :
               "B.g" \in S => methods["B.g"].averageDuration <= 103} :
              S \in SUBSET MethodKeys}

\* the methods maps of a baseline: an average is 0 or 100
BaselineMaps ==
    {methods \in MethodMaps :
        \A key \in DOMAIN methods : methods[key].averageDuration <= 100}

\* the ids of the two stored snapshots
BaselineId == <<"1">>
CurrentId == <<"2">>

\* two snapshots were saved, one on day 1 and one on day 2; no comparison
\* has been asked for
InitCompare ==
    /\ InitBuilder
    /\ IdleCompare
    /\ \E b \in BaselineMaps, c \in MethodMaps :
          files = WriteFile(
                     WriteFile({}, MakeSnapshot(<<"R">>, <<1, 1, 1>>, 1,
                                                Undefined, b)),
                     MakeSnapshot(<<"R">>, <<2, 2, 2>>, 2, Undefined, c))
    /\ clock = 2
    /\ loaded = NoLoad
    /\ lastOp = "none"
    /\ tasks = <<>>
    /\ IdleSession
    /\ InitProbe
    /\ InitLogs
    /\ InitTracker

\* the two snapshots are compared, also while another comparison of them is
\* pending and while the current one is deleted
NextCompare ==
    \/ ResolveWebviewView
    \/ /\ Cardinality({i \in DOMAIN tasks : tasks[i].op = "compare"}) <= 1
       /\ CompareSnapshots(BaselineId, CurrentId)
    \/ /\ comparison = NoComparison
       /\ \E thresholdPercent \in Thresholds : CompareWith(thresholdPercent)
    \/ /\ \A i \in DOMAIN tasks : tasks[i].op # "delete"
       /\ DeleteSnapshot(CurrentId)
    \/ \E i \in DOMAIN tasks : FindFile(i)
    \/ \E i \in DOMAIN tasks : ReadFile(i)
    \/ \E i \in DOMAIN tasks : Unlink(i, FALSE)

SpecCompare == InitCompare /\ [][NextCompare]_vars

(* Specifications of the snapshot storage *)

\* snapshots of different contents and empty snapshots are saved, damaged
\* on the disk and loaded, one call after the other
NextCodec ==
    \/ /\ Idle
       /\ \E snapshot \in CodecSnapshots(clock) \cup PlainSnapshots(clock) :
             SaveSnapshot(snapshot)
    \/ Idle /\ \E id \in ListedIds : LoadSnapshot(id)
    \/ \E i \in DOMAIN tasks : WriteAnswers(i)
    \/ \E i \in DOMAIN tasks : EnforceSnapshotLimit(i)
    \/ \E i \in DOMAIN tasks : FindFile(i)
    \/ \E i \in DOMAIN tasks : ReadFile(i)
    \/ DropLoaded
    \/ \E file \in files, how \in Damages : Damage(file, how)

SpecCodec == Init /\ [][NextCodec]_vars

\* the history of the storage operations is kept
InitDisk ==
    /\ InitQuiet
    /\ sendLog = NoSendLog
    /\ stopLog = NoStopLog
    /\ storageLog = [NoLog EXCEPT !.on = TRUE]

\* snapshots are saved day after day and the storage is opened again at any
\* time, one call after the other
NextEviction ==
    \/ Idle /\ OpenStore
    \/ Idle /\ \E snapshot \in PlainSnapshots(clock) : SaveSnapshot(snapshot)
    \/ tasks = <<>> /\ Tick
    \/ \E i \in DOMAIN tasks : WriteAnswers(i)
    \/ \E i \in DOMAIN tasks : EnforceSnapshotLimit(i)
    \/ \E i \in DOMAIN tasks : CleanupOldSnapshots(i)
    \/ \E i \in DOMAIN tasks : FindFile(i)
    \/ \E i \in DOMAIN tasks : Unlink(i, FALSE)

SpecEviction == InitDisk /\ [][NextEviction]_vars

\* the ids a caller may look up: listSnapshots gave them at some earlier time
LookupIds == {Digits(t) : t \in 1..MaxClock}

\* every pending call is a lookup of id
OnlyLookups(id) ==
    \A i \in DOMAIN tasks :
        /\ tasks[i].op \in {"load", "delete"}
        /\ tasks[i].asked = id

\* snapshots are saved, looked up and deleted day after day on a disk that
\* may refuse to remove a file; a lookup is made also while another lookup
\* is pending
NextDisk ==
    \/ Idle /\ OpenStore
    \/ Idle /\ \E snapshot \in PlainSnapshots(clock) : SaveSnapshot(snapshot)
    \/ /\ loaded = NoLoad
       /\ \E id \in LookupIds : OnlyLookups(id) /\ LoadSnapshot(id)
    \/ /\ loaded = NoLoad
       /\ \E id \in LookupIds : OnlyLookups(id) /\ DeleteSnapshot(id)
    \/ DropLoaded
    \/ tasks = <<>> /\ Tick
    \/ \E i \in DOMAIN tasks : WriteAnswers(i)
    \/ \E i \in DOMAIN tasks : EnforceSnapshotLimit(i)
    \/ \E i \in DOMAIN tasks : CleanupOldSnapshots(i)
    \/ \E i \in DOMAIN tasks : FindFile(i)
    \/ \E i \in DOMAIN tasks : ReadFile(i)
    \/ \E i \in DOMAIN tasks, refused \in BOOLEAN : Unlink(i, refused)

SpecDisk == InitDisk /\ [][NextDisk]_vars

-----------------------------------------------------------------------------
(* The capture session: handlePerformanceMessage and SnapshotCaptureManager *)

\* the messages handled at most
MaxMessages == 3

\* performance messages: found tells whether the handler resolved a file
\* path and a line for the method
SessionMessages ==
    [key : SessionKeys, duration : CaptureDurations, found : BOOLEAN,
     callId : {"a", Undefined}]

\* the name typed into the input box of the stop command
SessionNames == {<<"R">>}

\* msgV2 as addCall reads it
CallOf(message) ==
    [callId |-> message.callId, parentCallId |-> Undefined,
     duration |-> message.duration, timestamp |-> 1]

\* "let perfData = performanceStore.get(key); if (!perfData) {...} else {...}"
UpdatedAggregate(store, message) ==
    IF message.key \in DOMAIN store
    THEN PushDuration(store[message.key], message.duration)
    ELSE FirstAggregate(message.duration)

\* a Map of references read through: the aggregate object of each key
Deref(keys, store) == [key \in keys |-> store[key]]


\* handlePerformanceMessage(message), from "Update performance store" on
HandlePerformanceMessage(message) ==
    LET key == message.key
        hasLocation == key \in located \/ message.found
    IN /\ sessionLog.handled < MaxMessages
       /\ performanceStore' =
             [k \in DOMAIN performanceStore \cup {key} |->
                 IF k = key THEN UpdatedAggregate(performanceStore, message)
                 ELSE performanceStore[k]]
       /\ located' = IF message.found THEN located \cup {key} ELSE located
       /\ IF hasLocation /\ ~IsFalsy(message.callId)
          THEN AddCallStore(CallOf(message), clock, FALSE)
          ELSE UNCHANGED <<calls, pc, nodeMap, roots, idx, stack, steps, seen,
                           overwritten, flame>>
       /\ capturedData' = IF hasLocation /\ isCapturing
                          THEN capturedData \cup {key} ELSE capturedData
       /\ sessionLog' =
             [handled |-> sessionLog.handled + 1,
              received |-> [sessionLog.received EXCEPT
                               ![key] = Append(@, message.duration)],
              observed |-> IF isCapturing
                           THEN [sessionLog.observed EXCEPT
                                    ![key] = Append(@, message.duration)]
                           ELSE sessionLog.observed,
              callSeen |-> sessionLog.callSeen
                           \/ (isCapturing /\ ~IsFalsy(message.callId))]
       /\ UNCHANGED <<lastCall, compareVars, storageVars, probeVars,
                      trackVars, isCapturing, captureStartTime,
                      capturedCallStacks, returned, stopLog>>

\* the branch getGitInfo() answers with: undefined when there is no git
\* extension, repository or HEAD, else the name of HEAD
GitBranches == {Undefined, "main"}

\* the values of the Date.now() calls of the snapshot literal, for id,
\* timestamp and captureEndTime: three separate reads of a clock that never
\* goes back, and that may go on by any amount before each of them
ClockReads(now) ==
    {reads \in (now..MaxClock) \X (now..MaxClock) \X (now..MaxClock) :
        reads[1] <= reads[2] /\ reads[2] <= reads[3]}

\* the snapshot literal of stopCapture, with the fields it reads: start is
\* this.captureStartTime, data and store give the Map this.capturedData
SnapshotLiteral(name, reads, start, gitBranch, data, store, callStacks) ==
    [MakeSnapshot(name, reads, start, gitBranch, Deref(data, store))
        EXCEPT !.callStacks = callStacks]

\* the snapshot object stopCapture returned, as its holder reads it now: its
\* methods field is the Map capturedData itself, whose values are the
\* aggregate objects of performanceStore, and its callStacks field is the
\* array capturedCallStacks for as long as the manager keeps that array
ReturnedSnapshot ==
    [returned.saved EXCEPT
        !.methods = Deref(capturedData, performanceStore),
        !.callStacks = IF returned.aliased THEN capturedCallStacks
                       ELSE returned.held]

\* "this.capturedCallStacks = []": who holds the array of before keeps it
\* as it is now
Detached(holder) ==
    IF holder.aliased
    THEN [holder EXCEPT !.aliased = FALSE, !.held = capturedCallStacks]
    ELSE holder

\* startCapture(): a new session, also when one is active
StartCapture ==
    /\ stopLog.on => stopLog.session < MaxSessions
    /\ stopLog' = IF stopLog.on THEN [stopLog EXCEPT !.session = @ + 1]
                  ELSE stopLog
    /\ isCapturing' = TRUE
    /\ captureStartTime' = clock
    /\ capturedData' = {}
    /\ capturedCallStacks' = <<>>
    /\ tasks' = [i \in DOMAIN tasks |-> Detached(tasks[i])]
    /\ returned' = Detached(returned)
    /\ sessionLog' = [sessionLog EXCEPT !.observed = NoDurations,
                                        !.callSeen = FALSE]
    /\ UNCHANGED <<builderVars, compareVars, probeVars, trackVars, files,
                   clock, loaded, lastOp, storageLog, performanceStore,
                   located>>

\* the call stacks recordCallStack is given
CallStackNodes == {[callId |-> "a", children |-> <<>>]}

\* the call stacks recorded at most in one session
MaxCallStacks == 1

\* recordCallStack(callStack), node being the call stack
RecordCallStack(node) ==
    /\ Len(capturedCallStacks) < MaxCallStacks
    /\ capturedCallStacks' = IF isCapturing
                             THEN Append(capturedCallStacks, node)
                             ELSE capturedCallStacks
    /\ UNCHANGED <<builderVars, compareVars, storageVars, probeVars,
                   trackVars, performanceStore, located, isCapturing,
                   captureStartTime, capturedData, returned, sessionLog,
                   stopLog>>

\* stopCapture goes on whatever isCapturing is
CanStopAlways(capturing) == TRUE

\* "if (!this.isCapturing) throw": stopCapture goes on when a session is active
CanStop(capturing) == capturing

\* stopCapture(name, storageManager), up to "await storageManager.getGitInfo()"
StopCapture(name) ==
    /\ CanStop(isCapturing)
    /\ Len(tasks) < MaxTasks
    /\ stopLog.on => stopLog.stops < MaxStops
    /\ stopLog' = IF stopLog.on
                  THEN [stopLog EXCEPT !.stops = @ + 1, !.error = "none"]
                  ELSE stopLog
    /\ isCapturing' = FALSE
    /\ tasks' = Append(tasks, [NewTask("stop", "git", <<>>) EXCEPT
                                  !.name = name,
                                  !.session = sessionLog.observed,
                                  !.callSeen = sessionLog.callSeen,
                                  !.number = stopLog.session])
    /\ UNCHANGED <<builderVars, compareVars, probeVars, trackVars, files,
                   clock, loaded, lastOp, storageLog, performanceStore,
                   located, captureStartTime, capturedData,
                   capturedCallStacks, returned, sessionLog>>

\* getGitInfo() answers: stopCapture builds the snapshot literal from what
\* the manager holds now and calls saveSnapshot, which serializes the
\* snapshot and runs up to "await fs.promises.writeFile"
GitInfoAnswers(i, gitBranch, reads) ==
    /\ i \in DOMAIN tasks
    /\ tasks[i].pc = "git"
    /\ reads \in ClockReads(clock)
    /\ clock' = reads[3]
    /\ GoesOn(i, [tasks[i] EXCEPT
                     !.pc = "write",
                     !.aliased = TRUE,
                     !.snapshot = SnapshotLiteral(tasks[i].name, reads,
                                      captureStartTime, gitBranch,
                                      capturedData, performanceStore,
                                      capturedCallStacks)])
    /\ UNCHANGED <<builderVars, probeVars, trackVars, view, captureVars, files>>

\* cancelCapture()
CancelCapture ==
    /\ isCapturing
    /\ isCapturing' = FALSE
    /\ capturedData' = {}
    /\ capturedCallStacks' = <<>>
    /\ tasks' = [i \in DOMAIN tasks |-> Detached(tasks[i])]
    /\ returned' = Detached(returned)
    /\ UNCHANGED <<builderVars, compareVars, probeVars, trackVars, files,
                   clock, loaded, lastOp, storageLog, performanceStore,
                   located, captureStartTime, sessionLog, stopLog>>

\* stopCapture(name, storageManager) while no session is active: the call
\* throws before it assigns anything
StopCaptureRefused ==
    /\ ~CanStop(isCapturing)
    /\ stopLog.on
    /\ stopLog.stops < MaxStops
    /\ stopLog' = [stopLog EXCEPT !.stops = @ + 1, !.error = NoActiveSession]
    /\ UNCHANGED <<builderVars, compareVars, storageVars, probeVars, trackVars,
                   performanceStore, located, isCapturing, captureStartTime,
                   capturedData, capturedCallStacks, returned, sessionLog>>

\* messages arrive whenever the event loop runs, also while stopCapture
\* awaits; one stopCapture is pending at a time and the snapshots are taken
\* at one instant
NextSession ==
    \/ \E message \in SessionMessages : HandlePerformanceMessage(message)
    \/ StartCapture
    \/ tasks = <<>> /\ \E name \in SessionNames : StopCapture(name)
    \/ \E i \in DOMAIN tasks :
          GitInfoAnswers(i, Undefined, <<clock, clock, clock>>)
    \/ \E i \in DOMAIN tasks : WriteAnswers(i)
    \/ \E i \in DOMAIN tasks : EnforceSnapshotLimit(i)
    \/ CancelCapture

SpecSession == Init /\ [][NextSession]_vars

\* the messages of one method whose location is known
StopMessages ==
    {message \in SessionMessages :
        message.key = "A.f" /\ message.found /\ message.callId = Undefined}

\* those of them that carry one duration
PlainMessages == {message \in StopMessages : message.duration = 12}

\* sessions are started and stopped at any time, also while the stop of an
\* earlier session awaits; the snapshots are taken at one instant
NextStop ==
    \/ \E message \in PlainMessages : HandlePerformanceMessage(message)
    \/ StartCapture
    \/ Len(tasks) <= 1 /\ \E name \in SessionNames : StopCapture(name)
    \/ StopCaptureRefused
    \/ \E i \in DOMAIN tasks :
          GitInfoAnswers(i, Undefined, <<clock, clock, clock>>)
    \/ \E i \in DOMAIN tasks : WriteAnswers(i)
    \/ \E i \in DOMAIN tasks : EnforceSnapshotLimit(i)

\* the capture manager alone: sessions with call stacks recorded, in a
\* workspace with or without a git branch; messages and call stacks also arrive
\* while a stop awaits, and the snapshots are taken at one instant
NextManager ==
    \/ \E message \in PlainMessages : HandlePerformanceMessage(message)
    \/ \E node \in CallStackNodes : RecordCallStack(node)
    \/ StartCapture
    \/ tasks = <<>> /\ \E name \in SessionNames : StopCapture(name)
    \/ \E i \in DOMAIN tasks, gitBranch \in GitBranches :
          GitInfoAnswers(i, gitBranch, <<clock, clock, clock>>)
    \/ \E i \in DOMAIN tasks : WriteAnswers(i)
    \/ \E i \in DOMAIN tasks : EnforceSnapshotLimit(i)
    \/ CancelCapture

SpecManager == Init /\ [][NextManager]_vars

\* loadSnapshot(snapshot.id) for the snapshot the last stopCapture returned
LoadReturned ==
    /\ returned.made
    /\ Idle
    /\ LoadSnapshot(returned.saved.id)

\* sessions are stopped on a clock that runs while stopCapture reads it, and
\* their snapshots are looked up, one call after the other
NextFind ==
    \/ \E message \in PlainMessages : HandlePerformanceMessage(message)
    \/ StartCapture
    \/ Idle /\ \E name \in SessionNames : StopCapture(name)
    \/ \E i \in DOMAIN tasks, reads \in ClockReads(clock) :
          GitInfoAnswers(i, Undefined, reads)
    \/ \E i \in DOMAIN tasks : WriteAnswers(i)
    \/ \E i \in DOMAIN tasks : EnforceSnapshotLimit(i)
    \/ \E i \in DOMAIN tasks : FindFile(i)
    \/ \E i \in DOMAIN tasks : Unlink(i, FALSE)
    \/ \E i \in DOMAIN tasks : ReadFile(i)
    \/ LoadReturned
    \/ DropLoaded

SpecFind == Init /\ [][NextFind]_vars

\* the history of the stopCapture calls is kept
InitStop ==
    /\ InitQuiet
    /\ sendLog = NoSendLog
    /\ storageLog = NoLog
    /\ stopLog = [NoStopLog EXCEPT !.on = TRUE]

SpecStop == InitStop /\ [][NextStop]_vars

-----------------------------------------------------------------------------
(* The probe's WebSocket client (src/probe/websocket-client.ts) *)

\* time is counted in ticks: a timer holds the ticks left until it fires, and
\* time does not pass while a timer is due
RECONNECT_INTERVAL == 3
BATCH_INTERVAL == 1
MAX_BATCH_SIZE == 3

\* the messages the queue holds at most
MaxQueue == 5

\* a message whose content is of no interest
AnyMessage == 0

Pending(timer) == timer # NoTimer

\* scheduleReconnect(): a timer that is pending is left alone
ScheduleReconnectAfter(timer, delay) == IF Pending(timer) THEN timer ELSE delay

\* a reconnection scheduled without delay
ScheduleReconnectAtOnce(timer) == ScheduleReconnectAfter(timer, 0)

\* scheduleReconnect()
ScheduleReconnect(timer) == ScheduleReconnectAfter(timer, RECONNECT_INTERVAL)

\* "this.ws && this.ws.readyState === WebSocket.OPEN"
CanTransmit(socket) == socket = "open"

\* "if (this.messageQueue.length > 0 && this.ws && ...OPEN)"
Transmits(queue, socket) == Len(queue) > 0 /\ CanTransmit(socket)

\* a flush that leaves the queue as it is
AfterFlushKept(queue, socket) == queue

\* what flushQueue leaves in the queue: "this.messageQueue = []" after
\* ws.send, which does not throw on an open socket
AfterFlush(queue, socket) == IF Transmits(queue, socket) THEN <<>> ELSE queue

\* flushQueue(): the batch timer is cleared; the whole queue goes out as one
\* batch when the socket is open, and stays as it is otherwise
FlushQueueFrom(queue, log) ==
    /\ batchTimer' = NoTimer
    /\ messageQueue' = AfterFlush(queue, ws)
    /\ probeLog' = [probeLog EXCEPT
                        !.lastBatch = IF Transmits(queue, ws) THEN Len(queue)
                                      ELSE @]
    /\ sendLog' = [log EXCEPT
                       !.transmitted = IF log.on /\ Transmits(queue, ws)
                                       THEN @ \o queue ELSE @]

\* flushQueue()
FlushQueue(queue) == FlushQueueFrom(queue, sendLog)

\* history: message was passed to send()
Passed(log, message) ==
    [log EXCEPT !.passed = IF log.on THEN Append(@, message) ELSE @]

\* send(message), as far as the client goes
SendCore(message) ==
    /\ Len(messageQueue) < MaxQueue
    /\ IF Len(messageQueue) + 1 >= MAX_BATCH_SIZE
       THEN FlushQueueFrom(Append(messageQueue, message),
                           Passed(sendLog, message))
       ELSE /\ messageQueue' = Append(messageQueue, message)
            /\ batchTimer' = IF Pending(batchTimer) THEN batchTimer
                             ELSE BATCH_INTERVAL
            /\ probeLog' = probeLog
            /\ sendLog' = Passed(sendLog, message)
    /\ UNCHANGED <<ws, detached, reconnectTimer, disconnected>>

\* send(message), called by some decorator
Send(message) ==
    /\ SendCore(message)
    /\ UNCHANGED <<builderVars, compareVars, storageVars, sessionVars, trackVars>>

\* the callback of the batch timer
BatchTimerFires ==
    /\ batchTimer = 0
    /\ FlushQueue(messageQueue)
    /\ UNCHANGED <<builderVars, compareVars, storageVars, sessionVars, trackVars,
                   ws, detached, reconnectTimer, disconnected>>

\* ws.onopen: clearReconnectTimer()
OnOpen ==
    /\ ws = "connecting"
    /\ ws' = "open"
    /\ reconnectTimer' = NoTimer
    /\ probeLog' = [probeLog EXCEPT !.closedFor = NoTimer]
    /\ UNCHANGED <<builderVars, compareVars, storageVars, sessionVars, trackVars,
                   detached, messageQueue, batchTimer, disconnected, sendLog>>

\* ws.onclose of the socket this.ws refers to: the server went away, or the
\* attempt failed (onerror, which only logs, comes first)
OnClose ==
    /\ ws \in {"connecting", "open"}
    /\ ws' = "closed"
    /\ reconnectTimer' = ScheduleReconnect(reconnectTimer)
    /\ probeLog' = [probeLog EXCEPT !.closedFor = 0]
    /\ UNCHANGED <<builderVars, compareVars, storageVars, sessionVars, trackVars,
                   detached, messageQueue, batchTimer, disconnected, sendLog>>

\* ws.onclose of the socket that disconnect() closed: the handler is still
\* attached to it
OnCloseDetached ==
    /\ detached
    /\ detached' = FALSE
    /\ reconnectTimer' = ScheduleReconnect(reconnectTimer)
    /\ probeLog' = [probeLog EXCEPT !.closedFor = 0]
    /\ UNCHANGED <<builderVars, compareVars, storageVars, sessionVars, trackVars, ws,
                   messageQueue, batchTimer, disconnected, sendLog>>

\* the callback of the reconnect timer: connect(); new WebSocket(WS_URL)
\* throws on a malformed URL only, which the constant WS_URL is not
ReconnectTimerFires ==
    /\ reconnectTimer = 0
    /\ reconnectTimer' = NoTimer
    /\ ws' = "connecting"
    /\ UNCHANGED <<builderVars, compareVars, storageVars, sessionVars, trackVars,
                   detached, messageQueue, batchTimer, disconnected, probeLog, sendLog>>

\* disconnect(): flushQueue(), clearReconnectTimer(), ws.close(), ws = null;
\* close() on a socket that is not closed yet brings its close event later
Disconnect ==
    /\ FlushQueue(messageQueue)
    /\ reconnectTimer' = NoTimer
    /\ detached' = (detached \/ ws \in {"connecting", "open"})
    /\ ws' = "null"
    /\ disconnected' = TRUE
    /\ UNCHANGED <<builderVars, compareVars, storageVars, sessionVars, trackVars>>

\* one tick of time passes; a due timer fires first
ProbeTick ==
    /\ reconnectTimer # 0
    /\ batchTimer # 0
    /\ reconnectTimer' = IF Pending(reconnectTimer) THEN reconnectTimer - 1
                         ELSE reconnectTimer
    /\ batchTimer' = IF Pending(batchTimer) THEN batchTimer - 1 ELSE batchTimer
    /\ probeLog' = [probeLog EXCEPT !.closedFor =
                        IF @ = NoTimer \/ @ > RECONNECT_INTERVAL THEN @
                        ELSE @ + 1]
    /\ UNCHANGED <<builderVars, compareVars, storageVars, sessionVars, trackVars, ws,
                   detached, messageQueue, disconnected, sendLog>>

\* the probe sends, the server comes and goes, the application disconnects
NextProbe ==
    \/ Send(AnyMessage)
    \/ BatchTimerFires
    \/ OnOpen
    \/ OnClose
    \/ OnCloseDetached
    \/ ReconnectTimerFires
    \/ Disconnect
    \/ ProbeTick

SpecProbe == Init /\ [][NextProbe]_vars

\* time passes and due timers fire: the event loop of the browser runs
ProbeClock == ProbeTick \/ ReconnectTimerFires \/ BatchTimerFires

SpecProbeLive == SpecProbe /\ WF_vars(ProbeClock)

\* the sends a run makes at most
MaxSends == 4

\* the client with the history of its messages kept: the n-th message passed
\* to send() is the number n
NextOrder ==
    \/ /\ Len(sendLog.passed) < MaxSends
       /\ Send(Len(sendLog.passed) + 1)
    \/ BatchTimerFires
    \/ OnOpen
    \/ OnClose
    \/ OnCloseDetached
    \/ ReconnectTimerFires
    \/ Disconnect
    \/ ProbeTick

\* the history of the messages sent is kept
InitOrder ==
    /\ InitQuiet
    /\ sendLog = [NoSendLog EXCEPT !.on = TRUE]
    /\ stopLog = NoStopLog
    /\ storageLog = NoLog

SpecOrder == InitOrder /\ [][NextOrder]_vars

-----------------------------------------------------------------------------
(* The probe's TrackPerformance decorator and its CallStackManager *)
(* (src/probe/decorator.ts).  A callId is `call_${Date.now()}_${counter}`; *)
(* the counter alone tells callIds apart, and stands for the callId.      *)

\* the tracked invocations a run starts at most
MaxInvocations == 5

\* the bottom of the stack, taken for the current parent
GetBottomParent(ids) == IF ids = <<>> THEN Missing ELSE ids[1]

\* getCurrentParent(): callStack[callStack.length - 1], undefined when empty
GetCurrentParent(ids) == IF ids = <<>> THEN Missing ELSE ids[Len(ids)]

\* popCall(): Array.prototype.pop, which leaves an empty array empty
PopCall(ids) == IF ids = <<>> THEN <<>> ELSE SubSeq(ids, 1, Len(ids) - 1)

\* the invocation that is executing, Missing when the event loop is idle
Executing == IF running = <<>> THEN Missing ELSE running[Len(running)].callId

\* who may call a tracked method: the code that is executing; when none is,
\* the event loop or the continuation of an invocation that awaits
Callers ==
    IF running # <<>> THEN {Executing}
    ELSE {Missing} \cup {invocation.callId : invocation \in awaiting}

\* the wrapper is entered: generateCallId, getCurrentParent, getDepth,
\* pushCall; then originalMethod runs.  caller and enclosing are history:
\* the invocation that made the call and the number of invocations around it
Enter(kind, caller) ==
    /\ callIdCounter < MaxInvocations
    /\ caller \in Callers
    /\ callIdCounter' = callIdCounter + 1
    /\ callStack' = Append(callStack, callIdCounter)
    /\ running' = Append(running,
                       [callId |-> callIdCounter, kind |-> kind,
                        parentCallId |-> GetCurrentParent(callStack),
                        stackDepth |-> Len(callStack),
                        caller |-> caller, enclosing |-> Len(running),
                        before |-> callStack])
    /\ UNCHANGED <<builderVars, compareVars, storageVars, sessionVars,
                   probeVars, awaiting, trackLog>>

\* recordPerformanceV2(...) then popCall(): the message goes to the client
RecordAndPop(invocation) ==
    /\ SendCore(invocation.callId)
    /\ callStack' = PopCall(callStack)
    /\ trackLog' = [made |-> TRUE, callId |-> invocation.callId,
                    parentCallId |-> invocation.parentCallId,
                    stackDepth |-> invocation.stackDepth,
                    caller |-> invocation.caller,
                    enclosing |-> invocation.enclosing,
                    before |-> invocation.before]
    /\ UNCHANGED <<builderVars, compareVars, storageVars, sessionVars,
                   callIdCounter>>

\* originalMethod returns a value that is no promise, or throws: both paths
\* record and pop
Complete ==
    /\ running # <<>>
    /\ running[Len(running)].kind = "sync"
    /\ RecordAndPop(running[Len(running)])
    /\ running' = SubSeq(running, 1, Len(running) - 1)
    /\ UNCHANGED awaiting

\* originalMethod returns a promise: the wrapper returns result.then(...)
\* and pops nothing
ReturnPromise ==
    /\ running # <<>>
    /\ running[Len(running)].kind = "async"
    /\ running' = SubSeq(running, 1, Len(running) - 1)
    /\ awaiting' = awaiting \cup {running[Len(running)]}
    /\ UNCHANGED <<builderVars, compareVars, storageVars, sessionVars,
                   probeVars, callStack, callIdCounter, trackLog>>

\* the promise settles: one of the callbacks given to then() runs, both
\* record and pop
Settle(invocation) ==
    /\ running = <<>>
    /\ invocation \in awaiting
    /\ RecordAndPop(invocation)
    /\ awaiting' = awaiting \ {invocation}
    /\ UNCHANGED running

\* synchronous tracked methods that call one another
NextNesting ==
    \/ \E caller \in Callers : Enter("sync", caller)
    \/ Complete

SpecNesting == Init /\ [][NextNesting]_vars

\* synchronous and asynchronous tracked methods
NextTracker ==
    \/ \E kind \in {"sync", "async"}, caller \in Callers : Enter(kind, caller)
    \/ Complete
    \/ ReturnPromise
    \/ \E invocation \in awaiting : Settle(invocation)

SpecTracker == Init /\ [][NextTracker]_vars

-----------------------------------------------------------------------------
(* Reading a forest *)

Range(seq) == {seq[i] : i \in 1..Len(seq)}

Count(seq, x) == Cardinality({i \in 1..Len(seq) : seq[i] = x})

RECURSIVE Walk(_, _, _)
\* the callIds met walking the node list ids and everything below it, in
\* preorder, to at most depth levels
Walk(nm, ids, depth) ==
    IF ids = <<>> \/ depth = 0 THEN <<>>
    ELSE <<Head(ids)>>
         \o Walk(nm, MapGet(nm, Head(ids)).children, depth - 1)
         \o Walk(nm, Tail(ids), depth)

\* every node of forest f, roots and all descendants, once per occurrence
Flatten(f) == Walk(f.nodeMap, f.roots, Len(f.nodeMap) + 1)

\* the parent -> child links of forest f
Links(f) ==
    {<<id, c>> \in Range(Flatten(f)) \X Keys(f.nodeMap) :
        c \in Range(MapGet(f.nodeMap, id).children)}

\* a stored node and a forest node carry the same event
SameEvent(stored, node) ==
    /\ node.callId = stored.callId
    /\ node.parentCallId = stored.parentCallId
    /\ node.duration = stored.duration
    /\ node.startTime = stored.startTime
    /\ node.endTime = stored.endTime

\* the parent reference of a stored node names no stored node
Unresolved(m, node) == IsFalsy(node.parentCallId) \/ ~MapHas(m, node.parentCallId)

-----------------------------------------------------------------------------
(* Claims *)

\* C1: the forest buildCallTree returns holds every stored event exactly
\* once, counting all descendants of all roots: none twice, none dropped.
\* (In the specifications below the store does not change during a build.)
TreeCompleteness ==
    pc = "done" =>
        /\ Len(Flatten(Forest)) = Len(calls)
        /\ \A id \in Keys(calls) : Count(Flatten(Forest), id) = 1

\* C2: every stored event whose parentCallId is absent or names no stored
\* event is a root of the returned forest.
UnresolvedParentIsRoot ==
    pc = "done" =>
        \A i \in 1..Len(calls) :
            Unresolved(calls, calls[i]) => calls[i].callId \in Range(roots)

\* C3: once an addCall has completed the store holds at most MAX_CALLS
\* events, and a forest built afterwards has at most MAX_CALLS nodes.
CapacityBound ==
    /\ Len(calls) <= MAX_CALLS
    /\ pc = "done" => Len(Flatten(Forest)) <= MAX_CALLS

\* C4: callIds are unique in the store, and every callId whose stored event
\* comes from a duplicate insert has exactly one node in every later forest,
\* carrying the event of the latest insert.
DuplicateInsertOverwrites ==
    /\ \A i, j \in 1..Len(calls) : calls[i].callId = calls[j].callId => i = j
    /\ pc = "done" =>
          \A id \in overwritten :
              /\ Count(Flatten(Forest), id) = 1
              /\ SameEvent(MapGet(calls, id), MapGet(nodeMap, id))

RECURSIVE SumOver(_, _)
\* the sum of the durations of the stored events at the positions in set
SumOver(m, set) ==
    IF set = {} THEN 0
    ELSE LET i == CHOOSE x \in set : TRUE
         IN m[i].duration + SumOver(m, set \ {i})

\* the durations of the stored events that name callId id as their parent
ChildrenDuration(m, id) ==
    SumOver(m, {i \in 1..Len(m) : m[i].parentCallId = id})

\* C5: every node of the returned forest has selfTime = max(0, duration - sum
\* of the durations of its direct children), hence 0 <= selfTime <= duration.
SelfTimeExact ==
    pc = "done" =>
        \A id \in Range(Flatten(Forest)) :
            LET node == MapGet(nodeMap, id)
            IN /\ node.selfTime = Max(0, node.duration - ChildrenDuration(calls, id))
               /\ 0 <= node.selfTime
               /\ node.selfTime <= node.duration

\* C5 witness: a returned forest with a node whose children outlast it
\* (clamped to 0) and a node that keeps a part of its duration
SelfTimeClamped ==
    /\ pc = "done"
    /\ \E id \in Range(Flatten(Forest)) :
          /\ MapGet(nodeMap, id).duration < ChildrenDuration(calls, id)
          /\ MapGet(nodeMap, id).selfTime = 0
    /\ \E id \in Range(Flatten(Forest)) :
          /\ MapGet(nodeMap, id).children # <<>>
          /\ MapGet(nodeMap, id).selfTime > 0

\* C6: in every node of the returned forest the children are in ascending
\* order of start time.
ChildrenByStartTime ==
    pc = "done" =>
        \A id \in Range(Flatten(Forest)) :
            LET ch == MapGet(nodeMap, id).children
            IN \A j, k \in 1..Len(ch) :
                  j < k => MapGet(nodeMap, ch[j]).startTime
                             <= MapGet(nodeMap, ch[k]).startTime

\* C7: whatever the producer does around a build, the nodes the build has
\* cloned are the events of the store at one single instant of that build, and
\* the forest returned is the tree of the store contents of such an instant.
PointInTimeForest ==
    /\ pc \in {"link", "selfTimes"} =>
          \E m \in seen :
              /\ Len(nodeMap) = Len(m)
              /\ \A i \in 1..Len(m) : SameEvent(m[i], nodeMap[i])
    /\ pc = "done" => \E m \in seen : Forest = BuildCallTree(m)

\* C7 witness: a forest with a link was returned, and the producer has
\* changed the store since
ProducerRanAfterBuild ==
    /\ pc = "done"
    /\ Links(Forest) # {}
    /\ calls \notin seen
    /\ calls # <<>>

\* every stored node is as addCall made it
StoredUntouched(m) ==
    \A i \in 1..Len(m) : m[i].children = <<>> /\ m[i].selfTime = m[i].duration

\* C8: a build leaves every stored node unchanged (children and selfTime
\* included), and addCall, eviction and clear leave a returned forest unchanged.
ForestIndependentOfStore ==
    [][/\ (pc \in Building \/ pc' \in Building) => calls' = calls
       /\ StoredUntouched(calls')
       /\ (pc = "done" /\ pc' = "done") => Forest' = Forest]_vars

\* C8 witness: a forest with a link is held while the store it came from has
\* been emptied or overwritten
ForestOutlivesStore ==
    /\ pc = "done"
    /\ Links(Forest) # {}
    /\ \E id \in Range(roots) :
          \/ ~MapHas(calls, id)
          \/ ~SameEvent(MapGet(calls, id), MapGet(nodeMap, id))

\* the orders in which the events of store m can have been inserted
InsertionOrders(m) ==
    {[i \in 1..Len(m) |-> m[f[i]]] :
        f \in {g \in [1..Len(m) -> 1..Len(m)] :
                  \A i, j \in 1..Len(m) : g[i] = g[j] => i = j}}

\* C9: for a fixed set of events, every insertion order gives a forest with
\* the same set of roots and the same set of parent -> child links.
InsertionOrderIrrelevant ==
    pc = "done" =>
        \A m \in InsertionOrders(calls) :
            /\ Range(BuildCallTree(m).roots) = Range(roots)
            /\ Links(BuildCallTree(m)) = Links(Forest)

\* C9 witness: a child was stored before its parent and is linked below it
ChildBeforeParent ==
    /\ pc = "done"
    /\ \E i, j \in 1..Len(calls) :
          /\ i < j
          /\ calls[i].parentCallId = calls[j].callId
          /\ <<calls[j].callId, calls[i].callId>> \in Links(Forest)

\* C10: a build never stops short of its return, the recursion of
\* calculateSelfTimes is never deeper than the number of nodes, and the build
\* returns within a number of loop iterations linear in the number of nodes,
\* for every topology of parent references (self reference and cycles included).
BuildTerminates ==
    /\ pc \in Building => ENABLED BuildSteps
    /\ Len(stack) <= Len(nodeMap) + 1
    /\ steps <= 4 * Len(calls) + 4

\* a parent chain from node id that comes back to id within n hops
RECURSIVE OnCycle(_, _, _, _)
OnCycle(m, id, at, n) ==
    /\ n > 0
    /\ MapHas(m, at)
    /\ \/ MapGet(m, at).parentCallId = id
       \/ OnCycle(m, id, MapGet(m, at).parentCallId, n - 1)

\* C10 witness: a build has returned on a store that holds an event naming
\* itself as parent and two events naming each other
BuildReturnedOnCycles ==
    /\ pc = "done"
    /\ \E id \in Keys(calls) : MapGet(calls, id).parentCallId = id
    /\ \E id \in Keys(calls) :
          /\ MapGet(calls, id).parentCallId # id
          /\ OnCycle(calls, id, id, 3)

-----------------------------------------------------------------------------
(* C11: events that lack a required field *)

\* C11: a record handed to the store that lacks a required field (callId,
\* duration or start timestamp) is refused before it is stored: the store is
\* what it was before the call and holds no node with a missing field
IncompleteEventRejected ==
    /\ (lastCall.made /\ LacksRequiredField(lastCall.message))
          => (~lastCall.stored /\ calls = lastCall.before)
    /\ \A i \in 1..Len(calls) :
          /\ calls[i].callId # Undefined
          /\ calls[i].duration # Missing
          /\ calls[i].startTime # Missing

-----------------------------------------------------------------------------
(* C12: the cleanup pass of addCall *)

\* the nodes of store m, whatever their position
Nodes(m) == {m[i] : i \in 1..Len(m)}

\* the call recorded in lastCall ran the cleanup pass
CleanupRan == lastCall.made /\ Len(lastCall.before) >= MAX_CALLS

\* node started before the retention window that ends at lastCall.now
OlderThanWindow(node) == node.startTime < lastCall.now - CLEANUP_THRESHOLD_MS

\* C12: the cleanup pass that addCall runs on a full store evicts exactly
\* the events whose start is older than the retention window, and keeps every
\* event inside the window as it was (the message just stored aside)
CleanupEvictsExactlyOld ==
    CleanupRan =>
        \A node \in Nodes(lastCall.before) :
            node.callId # lastCall.message.callId =>
                IF OlderThanWindow(node)
                THEN ~MapHas(calls, node.callId)
                ELSE MapHas(calls, node.callId)
                     /\ MapGet(calls, node.callId) = node

\* a cleanup pass that evicted one event and kept another
CleanupEvictedAndKept ==
    /\ CleanupRan
    /\ \E old, young \in Nodes(lastCall.before) :
          /\ old.callId # lastCall.message.callId
          /\ young.callId # lastCall.message.callId
          /\ OlderThanWindow(old) /\ ~MapHas(calls, old.callId)
          /\ ~OlderThanWindow(young) /\ MapHas(calls, young.callId)

-----------------------------------------------------------------------------
(* C13..C16: the snapshot comparator *)

DiffTypes == {"improved", "regressed", "new", "removed", "unchanged"}

Compared == comparison.status = "ok"

\* the entries of the comparison that carry key
EntriesOf(key) ==
    {i \in 1..Len(comparison.entries) : comparison.entries[i].methodKey = key}

\* the entry of a key of the union
EntryOf(key) == comparison.entries[CHOOSE i \in EntriesOf(key) : TRUE]

\* C13: a comparison has exactly one entry per key of the union of the two
\* key sets, every entry has one classification out of the five, and the
\* counts of the summary add up to the number of entries
ComparisonTotality ==
    Compared =>
        LET entries == comparison.entries
            summary == CalculateSummary(entries)
            union == DOMAIN baseline \cup DOMAIN current
        IN /\ Len(entries) = Cardinality(union)
           /\ \A key \in MethodKeys :
                 Cardinality(EntriesOf(key)) = IF key \in union THEN 1 ELSE 0
           /\ \A i \in 1..Len(entries) : entries[i].diffType \in DiffTypes
           /\ summary.total = Len(entries)
           /\ summary.improved + summary.regressed + summary.new
                + summary.removed + summary.unchanged = Len(entries)

\* a comparison of two keys with two different classifications, one of them
\* of a method whose average is 0
TwoClassifications ==
    /\ Compared
    /\ Len(comparison.entries) = 2
    /\ comparison.entries[1].diffType # comparison.entries[2].diffType
    /\ \E key \in DOMAIN baseline : baseline[key].averageDuration = 0

\* C14: a key of both maps with a non-zero baseline average has
\* percentChange = (current - baseline) / baseline * 100 and is unchanged if
\* |percentChange| < threshold, else regressed if percentChange > 0, else
\* improved; a change equal to the threshold is not unchanged, and baseline
\* 100 against current 106 at threshold 5 is regressed
ThresholdClassification ==
    Compared =>
        \A key \in DOMAIN baseline \cap DOMAIN current :
            LET b == baseline[key].averageDuration
                c == current[key].averageDuration
                e == EntryOf(key)
                num == e.percentageChange.v[1]
                den == e.percentageChange.v[2]
                t == comparison.threshold
            IN b # 0 =>
                 /\ e.percentageChange.some
                 /\ den > 0
                 /\ num * b = (c - b) * 100 * den
                 /\ e.diffType = IF Abs(num) < t * den THEN "unchanged"
                                 ELSE IF num > 0 THEN "regressed"
                                 ELSE "improved"
                 /\ (Abs(num) = t * den) => e.diffType # "unchanged"
                 /\ (b = 100 /\ c = 106 /\ t = 5) => e.diffType = "regressed"

\* compareSnapshots met a change of exactly 5 percent and one below it
ChangeAtThreshold ==
    /\ Compared
    /\ comparison.threshold = REGRESSION_THRESHOLD
    /\ \E key \in DOMAIN baseline \cap DOMAIN current :
          /\ baseline[key].averageDuration = 100
          /\ current[key].averageDuration = 105
          /\ EntryOf(key).diffType = "regressed"
    /\ \E key \in DOMAIN baseline \cap DOMAIN current :
          /\ baseline[key].averageDuration = 100
          /\ current[key].averageDuration = 103
          /\ EntryOf(key).diffType = "unchanged"

\* C15: a key of the baseline only is removed with currentAvg = null, a key
\* of current only is new with baselineAvg = null, whatever the threshold
OneSidedKeys ==
    Compared =>
        /\ \A key \in DOMAIN baseline \ DOMAIN current :
              /\ EntryOf(key).diffType = "removed"
              /\ EntryOf(key).currentAvg = Null
              /\ EntryOf(key).baselineAvg = Some(baseline[key].averageDuration)
        /\ \A key \in DOMAIN current \ DOMAIN baseline :
              /\ EntryOf(key).diffType = "new"
              /\ EntryOf(key).baselineAvg = Null
              /\ EntryOf(key).currentAvg = Some(current[key].averageDuration)

\* a comparison at a threshold other than the default that met a removed
\* and a new method
RemovedAndNew ==
    /\ Compared
    /\ comparison.threshold # REGRESSION_THRESHOLD
    /\ \E key \in DOMAIN baseline \ DOMAIN current :
          EntryOf(key).diffType = "removed"
    /\ \E key \in DOMAIN current \ DOMAIN baseline :
          EntryOf(key).diffType = "new"

\* C16: a comparison called with a threshold that is not > 0 fails with
\* InvalidArgument and gives no entries
NonPositiveThresholdRejected ==
    (comparison.status # "none" /\ comparison.threshold <= 0) =>
        /\ comparison.status = "InvalidArgument"
        /\ comparison.entries = <<>>

\* a comparison of two non-empty maps was refused for its threshold 0
ZeroThresholdRefused ==
    /\ comparison.status = "InvalidArgument"
    /\ comparison.threshold = 0
    /\ DOMAIN baseline # {}
    /\ DOMAIN current # {}

-----------------------------------------------------------------------------
(* C18, C19: the snapshot codec *)

\* the value of a property that an object may not have
GitBranchOf(snapshot) ==
    IF "gitBranch" \in DOMAIN snapshot THEN snapshot.gitBranch ELSE Undefined
LastDurationOf(aggregate) ==
    IF "lastDuration" \in DOMAIN aggregate THEN aggregate.lastDuration ELSE Missing

\* a and b are the same snapshot; a property that is absent and a property
\* that is undefined are the same
SameSnapshot(a, b) ==
    /\ a.id = b.id /\ a.name = b.name /\ a.timestamp = b.timestamp
    /\ GitBranchOf(a) = GitBranchOf(b)
    /\ a.metadata = b.metadata
    /\ a.callStacks = b.callStacks
    /\ DOMAIN a.methods = DOMAIN b.methods
    /\ \A key \in DOMAIN a.methods :
          /\ a.methods[key].executions = b.methods[key].executions
          /\ a.methods[key].averageDuration = b.methods[key].averageDuration
          /\ LastDurationOf(a.methods[key]) = LastDurationOf(b.methods[key])

\* C18: the snapshot that loadSnapshot decodes from the bytes saveSnapshot
\* encoded is the snapshot that was saved: same id, name, timestamp, metadata
\* and call stacks, the same method keys, and per key the same durations and
\* the same average
RoundTrip ==
    (loaded.status = "ok" /\ loaded.intact) =>
        SameSnapshot(loaded.snapshot, loaded.origin)

\* C19: bytes that were damaged do not decode, and what a load returns has
\* every field of a snapshot and every method of the snapshot that was saved
NoPartialSnapshot ==
    /\ (loaded.status # "none" /\ ~loaded.intact) => loaded.status = "error"
    /\ loaded.status = "ok" =>
          /\ {"id", "name", "timestamp", "methods", "callStacks", "metadata"}
                \subseteq DOMAIN loaded.snapshot
          /\ DOMAIN loaded.snapshot.methods = DOMAIN loaded.origin.methods
          /\ \A key \in DOMAIN loaded.snapshot.methods :
                {"executions", "averageDuration"}
                    \subseteq DOMAIN loaded.snapshot.methods[key]

\* a load failed on a damaged file whose text still parses, next to an
\* intact file
DamagedFileRefused ==
    /\ loaded.status = "error"
    /\ ~loaded.intact
    /\ \E file \in files :
          /\ ~file.bytes.intact
          /\ file.bytes.text.wellFormed
          /\ "methods" \in DOMAIN file.bytes.text.value
          /\ file.origin = loaded.origin
    /\ \E file \in files : file.bytes.intact

-----------------------------------------------------------------------------
(* C20: eviction by age *)

\* a stored snapshot older than MAX_AGE_DAYS
Expired(file) == file.ts < clock - MAX_AGE_DAYS

\* C20: when the storage has just been opened or a save has just completed,
\* no stored snapshot is older than MAX_AGE_DAYS
NoExpiredAfterOpenOrSave ==
    lastOp \in {"open", "save"} => \A file \in files : ~Expired(file)

-----------------------------------------------------------------------------
(* C21: eviction by count *)

\* the files of before whose name is no longer in after
Dropped(before, after) ==
    {file \in before : \A kept \in after : NameOf(kept) # NameOf(file)}

\* C21: a save leaves at most MAX_SNAPSHOTS files, among them a file written
\* now, and a file it dropped is not newer than any file it kept: the count
\* rule drops the oldest excess only
CountRuleDropsOldest ==
    [][\A i \in DOMAIN tasks :
          (Settles(i) /\ tasks[i].op = "save") =>
             /\ Cardinality(files') <= MAX_SNAPSHOTS
             /\ \E file \in files' : file.ts = clock
             /\ \A dropped \in Dropped(tasks[i].before, files'),
                   kept \in files' : dropped.ts <= kept.ts]_vars

(* C22: a removal that fails during eviction *)
\* C22: a save or a store-open whose eviction met a removal failure still
\* completes, and the file a save wrote is still in the directory
RemovalFailureNotFatal ==
    (storageLog.op \in {"save", "open"} /\ storageLog.removalFailed)
        => /\ storageLog.status = "ok"
           /\ storageLog.written \subseteq files

(* C23: looking up an id that no stored snapshot has *)
\* in this step the loadSnapshot or deleteSnapshot call tasks[i] gets the
\* listing of a directory in which its id is the id of no stored snapshot
LookupOfAbsentId(i) ==
    /\ tasks[i].op \in {"load", "delete"}
    /\ tasks[i].asked \notin ListedIds
    /\ FindFile(i)

\* C23: a lookup of an id that no stored snapshot has fails with the not-found
\* error, gives no snapshot and leaves the stored files as they were
AbsentIdNotFound ==
    [][\A i \in DOMAIN tasks :
          LookupOfAbsentId(i) =>
             /\ Settles(i)
             /\ storageLog'.status = "notFound"
             /\ tasks[i].op = "load" => loaded'.status # "ok"
             /\ files' = files]_vars

(* C24: a snapshot once persisted *)
\* C24: once stopCapture has saved a snapshot, the stored file holds what was
\* saved and the snapshot object it returned still reads as it did when it
\* was saved, whatever is handled afterwards
SnapshotImmutable ==
    returned.made =>
        /\ \E file \in files : file.bytes = Encode(returned.saved)
        /\ ReturnedSnapshot = returned.saved

(* C25: the durations of the session *)
\* C25: the snapshot stopCapture produced holds, for each method, exactly the
\* durations handled between startCapture and the call of stopCapture, and
\* no method that was not observed in between
SnapshotHoldsSessionDurations ==
    returned.made =>
        /\ DOMAIN returned.saved.methods =
              {key \in SessionKeys : returned.session[key] # <<>>}
        /\ \A key \in DOMAIN returned.saved.methods :
              returned.saved.methods[key].executions = returned.session[key]

(* C26: the call trees of the session *)
\* C26: when a call event with a callId was received during the session, the
\* call-tree sequence of the saved snapshot is not empty
SnapshotHoldsCallTrees ==
    (returned.made /\ returned.callSeen) => returned.saved.callStacks # <<>>

(* C27: the aggregate of a method *)
\* C27: after k messages of a method key its aggregate holds the k durations
\* in arrival order, its last duration is the k-th and its average is their
\* arithmetic mean
AggregateHoldsEveryDuration ==
    \A key \in SessionKeys :
        LET durations == sessionLog.received[key]
        IN durations # <<>> =>
              /\ key \in DOMAIN performanceStore
              /\ performanceStore[key].executions = durations
              /\ performanceStore[key].lastDuration = durations[Len(durations)]
              /\ performanceStore[key].averageDuration * Len(durations)
                    = JSSum(durations, 1)

(* C28: the size of a batch *)
\* C28: no batch the client transmits holds more than MAX_BATCH_SIZE messages
BatchWithinLimit == probeLog.lastBatch <= MAX_BATCH_SIZE

(* C29: reconnection *)
\* C29: a connection attempt that follows a close or a failed attempt is made
\* exactly RECONNECT_INTERVAL after it, and every close or failed attempt is
\* followed by a new attempt unless disconnect() is called first
ReconnectsEveryInterval ==
    /\ [][(ws' = "connecting" /\ ws # "connecting")
             => probeLog.closedFor = RECONNECT_INTERVAL]_vars
    /\ (ws = "closed") ~> (ws \in {"connecting", "null"})

\* a socket was closed, and RECONNECT_INTERVAL later a new attempt is under way
ReconnectedAfterFailure ==
    /\ ws = "connecting"
    /\ probeLog.closedFor = RECONNECT_INTERVAL
    /\ ~disconnected

(* C30: disconnect() *)
\* C30: once disconnect() has returned no reconnect timer is pending and no
\* connection attempt is made: this.ws stays null
DisconnectStopsReconnection ==
    disconnected => (reconnectTimer = NoTimer /\ ws = "null")

(* C31: the queue while the extension is not running *)
\* C31: the pending queue never holds more than MAX_BATCH_SIZE messages,
\* however many are sent while the socket is not open
QueueBounded == Len(messageQueue) <= MAX_BATCH_SIZE

(* C35: messages queued while the socket was not open *)
\* C35: once the connection is open, what the queue holds is transmitted
\* (or the connection is lost again) without any further send()
QueuedEventuallyTransmitted ==
    (ws = "open" /\ messageQueue # <<>>) ~> (messageQueue = <<>> \/ ws # "open")

(* C36: at most once, in order *)
\* C36: the transmitted batches, one after the other, list messages passed
\* to send(), each at most once and in the order of the send() calls
TransmittedOnceInOrder ==
    /\ \A i \in DOMAIN sendLog.transmitted :
          \E j \in DOMAIN sendLog.passed :
             sendLog.passed[j] = sendLog.transmitted[i]
    /\ \A i, j \in DOMAIN sendLog.transmitted :
          i < j => sendLog.transmitted[i] < sendLog.transmitted[j]

\* a flush was skipped, and later batches went out while messages wait again
TransmittedAfterSkippedFlush ==
    /\ Len(sendLog.transmitted) >= MAX_BATCH_SIZE
    /\ probeLog.lastBatch < Len(sendLog.transmitted)
    /\ messageQueue # <<>>

(* C32: parentCallId and stackDepth of nested synchronous invocations *)
\* the callIds of the invocations on the JavaScript stack, outermost first
RunningIds == [i \in DOMAIN running |-> running[i].callId]

\* C32: with synchronous tracked methods the call stack holds the invocations
\* that are executing, an invocation (and its message) carries its caller as
\* parentCallId and the number of invocations around it as stackDepth, and
\* when it returns or throws the stack is as it was before it was entered
NestedCallsTracked ==
    /\ [](/\ callStack = RunningIds
          /\ \A i \in DOMAIN running :
                /\ running[i].parentCallId = running[i].caller
                /\ running[i].stackDepth = running[i].enclosing
          /\ trackLog.made =>
                /\ trackLog.parentCallId = trackLog.caller
                /\ trackLog.stackDepth = trackLog.enclosing)
    /\ [][trackLog' # trackLog => callStack' = trackLog'.before]_vars

\* an invocation two levels deep has completed inside its callers
NestedCallCompleted ==
    /\ trackLog.made
    /\ trackLog.stackDepth = 2
    /\ trackLog.parentCallId # Missing
    /\ Len(running) = 2

(* C34: the call stack when asynchronous invocations overlap *)
\* C34: the call stack holds exactly the callIds of the invocations that
\* have started and not completed, the parentCallId of an invocation is the
\* invocation that called it, and the stack is empty when none is open
StackHoldsOpenInvocations ==
    /\ {callStack[i] : i \in DOMAIN callStack}
          = {RunningIds[i] : i \in DOMAIN running}
            \cup {invocation.callId : invocation \in awaiting}
    /\ \A i \in DOMAIN running : running[i].parentCallId = running[i].caller
    /\ (running = <<>> /\ awaiting = {}) => callStack = <<>>

(* C33: what the extension does with a message that carries a callId *)
\* C33: every performance message that carries a callId is in the
\* CallStackBuilder once it was handled, and while a capture session is active
\* its method is among the recorded methods, whether or not a source
\* location is known for it
MessageWithCallIdProcessed ==
    [][\A message \in SessionMessages :
          (HandlePerformanceMessage(message) /\ ~IsFalsy(message.callId))
             => /\ MapHas(calls', message.callId)
                /\ isCapturing => message.key \in capturedData']_vars

(* C37: stopCapture while no capture session is active *)
\* C37: no capture session yields more than one snapshot and none is made
\* without a session; a stopCapture call fails with 'No active capture
\* session' exactly when no session is active, also while an earlier call
\* awaits, and the failing call changes neither the stored files nor the state
\* of the capture manager
OneSnapshotPerSession ==
    /\ [](/\ stopLog.made[0] = 0
          /\ \A session \in DOMAIN stopLog.made : stopLog.made[session] <= 1)
    /\ [][stopLog'.stops # stopLog.stops =>
             /\ stopLog'.error = NoActiveSession <=> ~isCapturing
             /\ stopLog'.error = NoActiveSession =>
                   UNCHANGED <<files, tasks, isCapturing, captureStartTime,
                               capturedData, capturedCallStacks,
                               returned>>]_vars

\* a second stopCapture was refused while the first one of the session awaits
SecondStopRefused ==
    /\ stopLog.error = NoActiveSession
    /\ stopLog.session = 1
    /\ \E i \in DOMAIN tasks : tasks[i].op = "stop" /\ tasks[i].number = 1
    /\ sessionLog.observed["A.f"] # <<>>

(* C38: which snapshot a lookup by id touches *)
\* the stored files whose id, as listSnapshots reports it, is id
WithId(dir, id) == {file \in dir : Digits(file.ts) = id}

\* C38: when exactly one stored snapshot has the id asked for, a
\* deleteSnapshot(id) that removes something removes that snapshot's file and
\* no other, and loadSnapshot(id) returns the snapshot that was saved to it
LookupTouchesItsSnapshot ==
    [][\A i \in DOMAIN tasks :
          LET id == tasks[i].asked
              target == CHOOSE file \in WithId(files, id) : TRUE
          IN /\ (tasks[i].op = "delete" /\ Settles(i) /\ files' # files
                     /\ Cardinality(WithId(files, id)) = 1)
                   => files' = files \ {target}
             /\ (tasks[i].op = "load" /\ Settles(i)
                     /\ Cardinality(WithId(files, id)) = 1)
                   => /\ loaded'.status = "ok"
                      /\ loaded'.origin = target.origin]_vars

(* C39: finding the snapshot stopCapture returned *)
\* C39: the id of the snapshot stopCapture returned is the id listSnapshots
\* reports for its file, the digits of the timestamp in the file name, and
\* loadSnapshot of that id succeeds with a snapshot equal to the one returned
ReturnedSnapshotFound ==
    /\ [](returned.made =>
            returned.saved.id = Digits(FileOf(returned.saved).ts))
    /\ [][\A i \in DOMAIN tasks :
             (Settles(i) /\ tasks[i].op = "load" /\ returned.made
                 /\ tasks[i].asked = returned.saved.id)
               => /\ loaded'.status = "ok"
                  /\ SameSnapshot(loaded'.snapshot, returned.saved)]_vars
====
